---- MODULE Spec2Model ----
(***************************************************************************)
(* teloxide_tests: the mock Telegram server behind MockBot.                *)
(*                                                                         *)
(* The model follows one MockBot through its dispatches.  The test thread  *)
(* ("bot") runs dispatch() step by step; while the handler pipeline runs,  *)
(* RPC calls are served concurrently by the route handlers, each of which  *)
(* works on the shared State behind one std::sync::Mutex.                  *)
(*                                                                         *)
(* send_animation, send_audio, send_document, dispatch, insert_updates and *)
(* get_responses are translated from the sources.  The State itself (the   *)
(* message store, reset, the existence check) and the edit / delete / pin  *)
(* routes are not among the source files; they follow the design document. *)
(***************************************************************************)
EXTENDS Integers, Sequences, FiniteSets, TLC

\* ------------------------------------------------------------------ bounds

\* RPC calls the pipeline issues in one run.
MaxCalls == 2

\* dispatch() calls on the MockBot.
MaxRuns == 2

\* Uploads of one run whose files are looked up.
MaxUploads == 3

\* Test threads of the process, each creating one MockBot.
MaxTests == 3

\* get_potential_storages() calls of one thread.
MaxProbes == 2

\* ----------------------------------------------------------------- options

\* Option<T>: None is the empty tuple, Some(x) the one-element tuple.
None == <<>>

Some(x) == <<x>>

IsSome(o) == o # <<>>

Unwrap(o) == o[1]

UnwrapOr(o, d) == IF o = <<>> THEN d ELSE o[1]

\* --------------------------------------------------------------- the State

\* The ID below the first one allocated ("starting at a fixed base").
BaseMessageId == 0

EmptyResponses ==
    [ sent_messages           |-> <<>>,
      sent_messages_animation |-> <<>>,
      sent_messages_audio     |-> <<>>,
      sent_messages_document  |-> <<>>,
      edited_messages_text    |-> <<>>,
      deleted_messages        |-> <<>>,
      pinned_chat_messages    |-> <<>>,
      sent_messages_text      |-> <<>>,
      sent_media_group        |-> <<>>,
      forwarded_messages      |-> <<>>,
      banned_chat_members     |-> <<>>,
      unbanned_chat_members   |-> <<>>,
      restricted_chat_members |-> <<>>,
      sent_chat_actions       |-> <<>>,
      set_message_reaction    |-> <<>>,
      set_my_commands         |-> <<>>,
      answered_callback_queries |-> <<>> ]

Buckets == DOMAIN EmptyResponses

\* State::default()
DefaultState ==
    [ messages   |-> <<>>,
      tombstones |-> {},
      files      |-> <<>>,
      responses  |-> EmptyResponses ]

\* reset(): clears all chats/messages/files/log entries.
reset(st) == DefaultState

SeqMax(s, base) ==
    IF s = <<>> THEN base
    ELSE LET ids == { s[i].id : i \in 1..Len(s) }
         IN  CHOOSE m \in ids : \A n \in ids : n <= m

max_message_id_live(st) ==
    SeqMax(SelectSeq(st.messages, LAMBDA m : m.id \notin st.tombstones), BaseMessageId)

\* max_message_id(): the highest ID ever stored, tombstoned ones included.
max_message_id(st) == SeqMax(st.messages, BaseMessageId)

\* A lookup that would still find a deleted message.
get_message_with_deleted(st, id) ==
    LET hit == SelectSeq(st.messages, LAMBDA m : m.id = id)
    IN  IF hit = <<>> THEN None ELSE Some(hit[1])

\* get_message(id): the stored message, absent when unknown or tombstoned.
get_message(st, id) ==
    IF id \in st.tombstones THEN None
    ELSE LET hit == SelectSeq(st.messages, LAMBDA m : m.id = id)
         IN  IF hit = <<>> THEN None ELSE Some(hit[1])

\* check_if_message_exists!(lock, id)
check_if_message_exists(st, id) == IsSome(get_message(st, id))

\* add_message(draft): assigns the next ID, stores the message and returns
\* the stored copy together with the new state.
add_message(st, draft) ==
    LET message == [draft EXCEPT !.id = max_message_id(st) + 1]
    IN  [ state   |-> [st EXCEPT !.messages = Append(@, message)],
          message |-> message ]

\* edit_message(message): replaces the stored message of the same ID in
\* place; nothing is stored when the ID does not resolve.
edit_message(st, message) ==
    [st EXCEPT !.messages =
        [i \in 1..Len(@) |->
            IF @[i].id = message.id /\ message.id \notin st.tombstones
            THEN message ELSE @[i]]]

\* tombstone_message(id): logical delete; the message stays in the store.
tombstone_message(st, id) == [st EXCEPT !.tombstones = @ \cup {id}]

\* ---------------------------------------------------------------- messages

\* The one chat of the model.
ChatId == 1

\* A text message as the dataset builds it (MockMessageText), before it is
\* stored: add_message gives it its ID.
TextMessage(id, text) ==
    [ id                    |-> id,
      chat                  |-> ChatId,
      kind                  |-> "text",
      from                  |-> "user",
      text                  |-> Some(text),
      caption               |-> None,
      caption_entities      |-> <<>>,
      has_protected_content |-> FALSE,
      date                  |-> 0,
      forward_origin        |-> None,
      reply_to_message      |-> None,
      reply_markup          |-> None,
      media                 |-> None ]

\* --------------------------------------------------------- inbound updates

MessageUpdate(text) ==
    [ kind |-> "Message", message |-> Some(TextMessage(0, text)), accessible |-> TRUE ]

EditedMessageUpdate(id, text) ==
    [ kind |-> "EditedMessage", message |-> Some(TextMessage(id, text)), accessible |-> TRUE ]

CallbackQueryUpdate(message, accessible) ==
    [ kind |-> "CallbackQuery", message |-> message, accessible |-> accessible ]

OtherUpdate == [ kind |-> "Poll", message |-> None, accessible |-> TRUE ]

\* The update lists a test hands to MockBot::new or update().
UpdateLists ==
    { <<>>,
      <<MessageUpdate("a")>>,
      <<MessageUpdate("a"), MessageUpdate("b")>>,
      <<MessageUpdate("a"), EditedMessageUpdate(1, "b")>>,
      <<CallbackQueryUpdate(Some(TextMessage(0, "a")), TRUE)>>,
      <<CallbackQueryUpdate(Some(TextMessage(0, "a")), FALSE), OtherUpdate>> }

\* A loop that would register the message of every callback query, the
\* inaccessible ones too.
insert_update_any_callback(st, update) ==
    IF update.kind \in {"Message", "CallbackQuery"} /\ IsSome(update.message)
    THEN LET r == add_message(st, Unwrap(update.message))
         IN  [ state |-> r.state,
               update |-> [update EXCEPT !.message = Some(r.message)],
               created |-> <<r.message.id>> ]
    ELSE IF update.kind = "EditedMessage"
    THEN [ state |-> edit_message(st, Unwrap(update.message)),
           update |-> update,
           created |-> <<>> ]
    ELSE [ state |-> st, update |-> update, created |-> <<>> ]

\* One turn of the loop of insert_updates: the state and the update after it.
insert_update(st, update) ==
    CASE update.kind = "Message" ->
            LET r == add_message(st, Unwrap(update.message))
            IN  [ state |-> r.state,
                  update |-> [update EXCEPT !.message = Some(r.message)],
                  created |-> <<r.message.id>> ]
      [] update.kind = "EditedMessage" ->
            [ state |-> edit_message(st, Unwrap(update.message)),
              update |-> update,
              created |-> <<>> ]
      [] update.kind = "CallbackQuery" /\ IsSome(update.message) /\ update.accessible ->
            LET r == add_message(st, Unwrap(update.message))
            IN  [ state |-> r.state,
                  update |-> [update EXCEPT !.message = Some(r.message)],
                  created |-> <<r.message.id>> ]
      [] OTHER -> [ state |-> st, update |-> update, created |-> <<>> ]

RECURSIVE insert_updates(_, _)
\* insert_updates(&mut updates): every update in submission order.
insert_updates(st, ups) ==
    IF ups = <<>> THEN [ state |-> st, updates |-> <<>>, created |-> <<>> ]
    ELSE LET head == insert_update(st, Head(ups))
             rest == insert_updates(head.state, Tail(ups))
         IN  [ state   |-> rest.state,
               updates |-> <<head.update>> \o rest.updates,
               created |-> head.created \o rest.created ]

\* ------------------------------------------------------------ request bodies

\* The message IDs a request may name: the first of a run and one that is
\* never allocated.
UnknownMessageId == 404

TargetIds == {1, UnknownMessageId}

\* File names are character tuples, file contents byte tuples.
GifName == <<"a", ".", "g", "i", "f">>

BareName == <<"n", "o", "e", "x", "t">>

\* The requests of the model: the upload, whether the optional fields are
\* supplied, and the reply target.
Variants ==
    { [ supplied |-> FALSE, file_name |-> BareName, file_data |-> <<>>,
        reply |-> None ],
      [ supplied |-> TRUE,  file_name |-> GifName,  file_data |-> <<120, 121>>,
        reply |-> Some(1) ],
      [ supplied |-> FALSE, file_name |-> GifName,  file_data |-> <<120>>,
        reply |-> Some(UnknownMessageId) ] }

Opt(v, x) == IF v.supplied THEN Some(x) ELSE None

InlineKeyboard == [ type |-> "InlineKeyboard", text |-> "kb" ]

\* SendMessageAnimationBody
AnimationBody(v) ==
    [ chat_id                  |-> ChatId,
      file_name                |-> v.file_name,
      file_data                |-> v.file_data,
      duration                 |-> Opt(v, 7),
      width                    |-> Opt(v, 320),
      height                   |-> Opt(v, 240),
      caption                  |-> Opt(v, "c"),
      caption_entities         |-> Opt(v, <<"bold">>),
      show_caption_above_media |-> Opt(v, TRUE),
      has_spoiler              |-> Opt(v, TRUE),
      protect_content          |-> Opt(v, TRUE),
      reply_markup             |-> Opt(v, InlineKeyboard),
      reply_parameters         |-> v.reply ]

\* SendMessageAudioBody
AudioBody(v) ==
    [ chat_id          |-> ChatId,
      file_name        |-> v.file_name,
      file_data        |-> v.file_data,
      duration         |-> Opt(v, 7),
      caption          |-> Opt(v, "c"),
      caption_entities |-> Opt(v, <<"bold">>),
      performer        |-> Opt(v, "p"),
      title            |-> Opt(v, "t"),
      protect_content  |-> Opt(v, TRUE),
      reply_parameters |-> v.reply,
      reply_markup     |-> Opt(v, InlineKeyboard) ]

\* SendMessageDocumentBody
DocumentBody(v) ==
    [ chat_id          |-> ChatId,
      file_name        |-> v.file_name,
      file_data        |-> v.file_data,
      caption          |-> Opt(v, "c"),
      caption_entities |-> Opt(v, <<"bold">>),
      protect_content  |-> Opt(v, TRUE),
      reply_markup     |-> Opt(v, InlineKeyboard),
      reply_parameters |-> v.reply ]

SendMethods == {"send_animation", "send_audio", "send_document"}

\* The bodies a call of one of the send routes may carry.
SendBodies(method) ==
    { CASE method = "send_animation" -> AnimationBody(v)
        [] method = "send_audio"     -> AudioBody(v)
        [] method = "send_document"  -> DocumentBody(v)
      : v \in Variants }

\* Alphanumeric.sample_string: the tokens the random generator may return.
FileIdTokens == {"f1", "f2"}

FileUniqueIdTokens == {"u1"}

\* ------------------------------------------------------------- MIME guessing

RECURSIVE LastDot(_, _)
\* The position of the last "." of a path, 0 when it has none.
LastDot(path, i) ==
    IF i = 0 THEN 0
    ELSE IF path[i] = "." THEN i ELSE LastDot(path, i - 1)

\* Path::extension: what follows the last dot, unless the name starts with it.
extension(path) ==
    LET d == LastDot(path, Len(path))
    IN  IF d <= 1 THEN None ELSE Some(SubSeq(path, d + 1, Len(path)))

\* mime_guess::from_path(name).first(): the extension table.
mime_guess_first(path) ==
    LET ext == extension(path)
    IN  CASE ext = Some(<<"g", "i", "f">>) -> Some("image/gif")
          [] ext = Some(<<"t", "x", "t">>) -> Some("text/plain")
          [] ext = Some(<<"m", "p", "3">>) -> Some("audio/mpeg")
          [] ext = Some(<<"m", "p", "4">>) -> Some("video/mp4")
          [] OTHER -> None

\* ------------------------------------------------- the send route handlers

reply_to_nothing(st, body) == None

\* if let Some(reply_parameters) = &body.reply_parameters { ... }: the copy
\* of the stored reply target the new message carries.
reply_to_message(st, body) ==
    IF body.reply_parameters = None THEN None
    ELSE get_message(st, Unwrap(body.reply_parameters))

reply_always_resolves(st, body) == FALSE

\* check_if_message_exists!(lock, reply_parameters.message_id.0) fails.
reply_target_missing(st, body) ==
    /\ body.reply_parameters # None
    /\ ~check_if_message_exists(st, Unwrap(body.reply_parameters))

\* if let Some(ReplyMarkup::InlineKeyboard(markup)) = body.reply_markup
inline_markup(body) ==
    IF IsSome(body.reply_markup) /\ Unwrap(body.reply_markup).type = "InlineKeyboard"
    THEN body.reply_markup ELSE None

\* A file meta that would not record the payload's length.
file_meta_without_size(body, file_id, file_unique_id) ==
    [ id |-> file_id, unique_id |-> file_unique_id, size |-> 0 ]

\* file_size = body.file_data.bytes().len() as u32 (no payload of the model
\* comes near 2^32 bytes, where the cast would wrap).
FileMeta(body, file_id, file_unique_id) ==
    [ id |-> file_id, unique_id |-> file_unique_id,
      size |-> Len(body.file_data) ]

\* Dimensions that would default to nothing.
unwrap_or_zero(dimension) == UnwrapOr(dimension, 0)

\* body.width.unwrap_or(100), body.height.unwrap_or(100)
unwrap_or_placeholder(dimension) == UnwrapOr(dimension, 100)

\* The message send_animation builds from the request, before it is stored.
animation_message(st, body, file_id, file_unique_id) ==
    [ id                    |-> 0,
      chat                  |-> body.chat_id,
      kind                  |-> "animation",
      from                  |-> "me",
      text                  |-> None,
      caption               |-> body.caption,
      caption_entities      |-> UnwrapOr(body.caption_entities, <<>>),
      has_protected_content |-> UnwrapOr(body.protect_content, FALSE),
      date                  |-> 0,
      forward_origin        |-> None,
      reply_to_message      |-> reply_to_message(st, body),
      reply_markup          |-> inline_markup(body),
      media                 |-> Some(
        [ file                     |-> FileMeta(body, file_id, file_unique_id),
          file_name                |-> Some(body.file_name),
          mime_type                |-> Some(UnwrapOr(mime_guess_first(body.file_name), "image/gif")),
          duration                 |-> UnwrapOr(body.duration, 0),
          width                    |-> unwrap_or_placeholder(body.width),
          height                   |-> unwrap_or_placeholder(body.height),
          has_media_spoiler        |-> UnwrapOr(body.has_spoiler, FALSE),
          show_caption_above_media |-> UnwrapOr(body.show_caption_above_media, FALSE) ]) ]

\* The message send_audio builds from the request, before it is stored.
audio_message(st, body, file_id, file_unique_id) ==
    [ id                    |-> 0,
      chat                  |-> body.chat_id,
      kind                  |-> "audio",
      from                  |-> "me",
      text                  |-> None,
      caption               |-> body.caption,
      caption_entities      |-> UnwrapOr(body.caption_entities, <<>>),
      has_protected_content |-> UnwrapOr(body.protect_content, FALSE),
      date                  |-> 0,
      forward_origin        |-> None,
      reply_to_message      |-> reply_to_message(st, body),
      reply_markup          |-> inline_markup(body),
      media                 |-> Some(
        [ file      |-> FileMeta(body, file_id, file_unique_id),
          file_name |-> Some(body.file_name),
          mime_type |-> Some("audio/mp3"),
          duration  |-> UnwrapOr(body.duration, 0),
          performer |-> body.performer,
          title     |-> body.title ]) ]

\* The message send_document builds from the request, before it is stored.
document_message(st, body, file_id, file_unique_id) ==
    [ id                    |-> 0,
      chat                  |-> body.chat_id,
      kind                  |-> "document",
      from                  |-> "me",
      text                  |-> None,
      caption               |-> body.caption,
      caption_entities      |-> UnwrapOr(body.caption_entities, <<>>),
      has_protected_content |-> UnwrapOr(body.protect_content, FALSE),
      date                  |-> 0,
      forward_origin        |-> None,
      reply_to_message      |-> reply_to_message(st, body),
      reply_markup          |-> inline_markup(body),
      media                 |-> Some(
        [ file      |-> FileMeta(body, file_id, file_unique_id),
          file_name |-> Some(body.file_name),
          mime_type |-> Some(UnwrapOr(mime_guess_first(body.file_name), "text/plain")) ]) ]

send_message_draft(method, st, body, file_id, file_unique_id) ==
    CASE method = "send_animation" -> animation_message(st, body, file_id, file_unique_id)
      [] method = "send_audio"     -> audio_message(st, body, file_id, file_unique_id)
      [] method = "send_document"  -> document_message(st, body, file_id, file_unique_id)

\* The bucket of the Response Log a send route appends to.
kind_bucket(method) ==
    CASE method = "send_animation" -> "sent_messages_animation"
      [] method = "send_audio"     -> "sent_messages_audio"
      [] method = "send_document"  -> "sent_messages_document"

\* lock.messages.add_message(message.id(last_id + 1).build())
store_message(st, message, last_id) ==
    add_message(st, [message EXCEPT !.id = last_id + 1])

\* lock.files.push(File { meta: message.<kind>().unwrap().file.clone(), path })
push_file(st, message, body) ==
    [st EXCEPT !.files =
        Append(@, [ meta |-> Unwrap(message.media).file, path |-> body.file_name ])]

prepend_sent_message(st, message) ==
    [st EXCEPT !.responses.sent_messages = <<message>> \o @]

\* lock.responses.sent_messages.push(message.clone())
push_sent_message(st, message) ==
    [st EXCEPT !.responses.sent_messages = Append(@, message)]

push_kind_bucket_twice(st, method, message, body) ==
    [st EXCEPT !.responses[kind_bucket(method)] =
        @ \o << [ message |-> message, bot_request |-> body ],
                [ message |-> message, bot_request |-> body ] >>]

\* lock.responses.sent_messages_<kind>.push(Sent { message, bot_request: body })
push_kind_bucket(st, method, message, body) ==
    [st EXCEPT !.responses[kind_bucket(method)] =
        Append(@, [ message |-> message, bot_request |-> body ])]

\* ------------------------------------------- the edit, delete and pin routes

MessageNotFound == "Message not found"

MessageNotModified == "MessageNotModified"

Ok(message) == [ ok |-> TRUE, description |-> "", message |-> Some(message) ]

Err(description) == [ ok |-> FALSE, description |-> description, message |-> None ]

OtherMethods == {"edit_message_text", "delete_message", "pin_chat_message"}

Methods == SendMethods \cup OtherMethods

Texts == {"a", "b"}

\* The bodies of the routes that name a target message.
OtherBodies(method) ==
    IF method = "edit_message_text"
    THEN { [ message_id |-> id, text |-> Some(t) ] : id \in TargetIds, t \in Texts }
    ELSE { [ message_id |-> id, text |-> None ] : id \in TargetIds }

edit_message_text_always(st, body) ==
    LET edited == [Unwrap(get_message(st, body.message_id)) EXCEPT !.text = body.text]
    IN  IF ~check_if_message_exists(st, body.message_id)
        THEN [ state |-> st, result |-> Err(MessageNotFound) ]
        ELSE [ state |-> [edit_message(st, edited) EXCEPT
                            !.responses.edited_messages_text =
                                Append(@, [ message |-> edited, bot_request |-> body ])],
               result |-> Ok(edited) ]

\* edit_message_text: not found, not modified, or the text replaced in place
\* and the edit logged.
edit_message_text(st, body) ==
    IF ~check_if_message_exists(st, body.message_id)
    THEN [ state |-> st, result |-> Err(MessageNotFound) ]
    ELSE LET old    == Unwrap(get_message(st, body.message_id))
             edited == [old EXCEPT !.text = body.text]
         IN  IF old.text = body.text
             THEN [ state |-> st, result |-> Err(MessageNotModified) ]
             ELSE [ state |-> [edit_message(st, edited) EXCEPT
                                 !.responses.edited_messages_text =
                                     Append(@, [ message |-> edited, bot_request |-> body ])],
                    result |-> Ok(edited) ]

delete_message_erasing(st, body) ==
    IF ~check_if_message_exists(st, body.message_id)
    THEN [ state |-> st, result |-> Err(MessageNotFound) ]
    ELSE LET old == Unwrap(get_message(st, body.message_id))
         IN  [ state |-> [st EXCEPT
                            !.messages = SelectSeq(@, LAMBDA m : m.id # body.message_id),
                            !.responses.deleted_messages =
                                Append(@, [ message |-> old, bot_request |-> body ]),
                            !.responses.sent_messages =
                                SelectSeq(@, LAMBDA m : m.id # body.message_id)],
               result |-> Ok(old) ]

\* delete_message: not found, or the message tombstoned and the delete logged.
delete_message(st, body) ==
    IF ~check_if_message_exists(st, body.message_id)
    THEN [ state |-> st, result |-> Err(MessageNotFound) ]
    ELSE LET old == Unwrap(get_message(st, body.message_id))
         IN  [ state |-> [tombstone_message(st, body.message_id) EXCEPT
                            !.responses.deleted_messages =
                                Append(@, [ message |-> old, bot_request |-> body ])],
               result |-> Ok(old) ]

\* pin_chat_message: not found, or the pin logged.
pin_chat_message(st, body) ==
    IF ~check_if_message_exists(st, body.message_id)
    THEN [ state |-> st, result |-> Err(MessageNotFound) ]
    ELSE [ state |-> [st EXCEPT !.responses.pinned_chat_messages = Append(@, body)],
           result |-> Ok(Unwrap(get_message(st, body.message_id))) ]

other_route(method, st, body) ==
    CASE method = "edit_message_text" -> edit_message_text(st, body)
      [] method = "delete_message"    -> delete_message(st, body)
      [] method = "pin_chat_message"  -> pin_chat_message(st, body)

\* get_responses(): a clone of the Response Log.
get_responses(st) == st.responses

\* The {unique_id, path} answer of the file retrieval for a stored File.
FileAnswer(file) ==
    [ file_id |-> file.meta.id, unique_id |-> file.meta.unique_id, path |-> file.path ]

FileNotFound == "File not found"

\* A retrieval that would answer with the first file of the list.
get_file_first(st, body) ==
    IF st.files = <<>> THEN Err(FileNotFound) ELSE Ok(FileAnswer(st.files[1]))

\* get_file: resolves a file-id to the File registered under it.
get_file(st, body) ==
    LET hit == SelectSeq(st.files, LAMBDA f : f.meta.id = body.file_id)
    IN  IF hit = <<>> THEN Err(FileNotFound) ELSE Ok(FileAnswer(hit[1]))

\* One send handler from state.lock() to its return, as one step.
send_route(method, st, body, file_id, file_unique_id) ==
    IF reply_target_missing(st, body)
    THEN [ state |-> st, result |-> Err(MessageNotFound) ]
    ELSE LET draft  == send_message_draft(method, st, body, file_id, file_unique_id)
             stored == store_message(st, draft, max_message_id(st))
             filed  == push_file(stored.state, stored.message, body)
             logged == push_sent_message(filed, stored.message)
         IN  [ state  |-> push_kind_bucket(logged, method, stored.message, body),
               result |-> Ok(stored.message) ]

\* ------------------------------------------------------------------- state

\* The route handler invocations the server may be serving at once.
Callers == {1, 2}

VARIABLES
    state,       \* the State behind Arc<Mutex<State>>
    state_lock,  \* the threads inside state.lock()
    updates,     \* MockBot::updates
    pc,          \* where the test thread is in dispatch()
    server,      \* the ServerManager of the current run
    events,      \* the updates handed to the pipeline
    calls,       \* per caller: the position and the locals of its route handler
    last,        \* the call that returned last (history)
    hist,        \* what the current run created, sent and deleted (history)
    ncalls,      \* RPC calls begun in the current run
    nruns,       \* dispatches begun
    bot_lock,    \* BOT_LOCK: its holder and whether it is poisoned
    tests,       \* per test thread: where it is with its MockBot
    api_url,     \* the port the pipeline's bot and TELOXIDE_API_URL name
    error_handler,  \* MockBot::error_handler
    errors,      \* the errors the registered error handler has recorded
    pipeline,    \* the dispatcher: updates handled, the error being handled
    distribution_f,  \* MockBot::distribution_f
    workers,     \* the dispatcher's workers: per update, where its handler is
    handler_tree,  \* MockBot::handler_tree: the schema the test passed
    dependencies,  \* MockBot::dependencies: the dialogue storages registered
    observed,    \* what the test's last set_state or try_get_state did (history)
    poisoned,    \* whether a thread panicked while it held the state's mutex
    runs,        \* per dispatch: what it started from and what it left (history)
    panic_hook,  \* the process: the panic hook installed, the first one, the gag of stderr
    probes,      \* per thread: where its get_potential_storages is, its locals
    me           \* MockBot::me

\* The variables of the test threads and BOT_LOCK.
bot_vars == <<bot_lock, tests>>

\* The variables of the pipeline run.
run_vars == <<api_url, error_handler, errors, pipeline>>

\* The variables of the keyed workers, the dialogue storages and the
\* poisoning of the state's mutex.
dialogue_vars == <<handler_tree, dependencies, observed, runs, panic_hook, probes, me>>

test_vars == <<distribution_f, workers, dialogue_vars, poisoned>>

vars == <<state, state_lock, updates, pc, server, events, calls, last, hist, ncalls, nruns,
          bot_lock, tests, api_url, error_handler, errors, pipeline,
          distribution_f, workers, handler_tree, dependencies, observed, poisoned,
          runs, panic_hook, probes, me>>

IdleCall == [ pc |-> "idle", method |-> "", body |-> None, pre |-> None,
              message |-> None ]

NoLast == [ method |-> "", body |-> None, pre |-> None, result |-> None, client |-> "" ]

EmptyHist == [ created |-> <<>>, sent |-> <<>>, deleted |-> {}, failed |-> <<>> ]

lock_always(holders) == TRUE

\* state.lock(): the mutex is granted when no thread holds it.
lock_free(holders) == holders = {}

\* The test threads of the process.
Tests == 1..MaxTests

\* A test thread that has not created its MockBot.
NoBot == [ pc |-> "idle", ctor |-> "", acquired |-> 0 ]

\* A test thread whose MockBot::new has returned.
HoldingBot == [ pc |-> "bot", ctor |-> "", acquired |-> 1 ]

\* static ref BOT_LOCK: Mutex<()> = Mutex::new(())
FreeLock == [ holder |-> None, poisoned |-> FALSE ]

LoggingErrorHandler == "LoggingErrorHandler"

\* No client has been pointed at a server yet.
NoUrl == [ bot |-> None, env |-> None ]

\* The dispatcher before its listener has yielded an update.
NoPipeline == [ delivered |-> 0, pending |-> None ]

\* The name of the key function MockBot::new installs.
default_distribution_function == "default_distribution_function"

\* DependencyMap::new(): no dialogue storage is registered.
DependencyMapNew == [ in_mem |-> None, erased |-> None ]

\* No dialogue has been read or written yet.
NoObserved ==
    [ op |-> "", arg |-> None, chat |-> None, storage |-> None, pre |-> None,
      post |-> None, value |-> None, panicked |-> FALSE, after |-> "" ]

\* The handler trees of the tests: get_schema and the two dialogue schemas
\* with the storage that dialogue::enter asks the dependencies for.
get_schema == "get_schema"

get_dialogue_schema == "get_dialogue_schema"

get_erased_dialogue_schema == "get_erased_dialogue_schema"

\* MockMe::new().build(): the bot's parameters as MockBot::new sets them.
MockMe == "MockMe"

\* The threads of a test that may call get_state and its kin at once.
Probers == {1, 2}

\* The hook std installs, and the one it installs when a hook is taken.
DefaultHook == "default hook"

\* The hook of panic::set_hook(Box::new(|_| {})).
SilentHook == "silent hook"

\* A thread that is not inside get_potential_storages.
NoProbe == [ pc |-> "idle", default_panic |-> None, found |-> None, returned |-> 0 ]

\* The fields of a MockBot when MockBot::new returns, and the process
\* around it: nothing dispatched, TELOXIDE_API_URL not yet set.
MockBotNew ==
    /\ state = DefaultState
    /\ state_lock = {}
    /\ pc = "idle"
    /\ server = "Created"
    /\ events = <<>>
    /\ calls = [c \in Callers |-> IdleCall]
    /\ last = NoLast
    /\ hist = EmptyHist
    /\ ncalls = 0
    /\ nruns = 0
    /\ api_url = NoUrl
    /\ error_handler = LoggingErrorHandler
    /\ errors = <<>>
    /\ pipeline = NoPipeline
    /\ distribution_f = default_distribution_function
    /\ workers = <<>>
    /\ dependencies = DependencyMapNew
    /\ observed = NoObserved
    /\ poisoned = FALSE
    /\ runs = <<>>
    /\ panic_hook = [ installed |-> DefaultHook, first |-> DefaultHook, gagged |-> FALSE ]
    /\ probes = [p \in Probers |-> NoProbe]
    /\ me = MockMe

\* The test of thread 1 has created its MockBot, which holds BOT_LOCK.
Init ==
    /\ MockBotNew
    /\ handler_tree = get_schema
    /\ updates \in UpdateLists
    /\ bot_lock = [ holder |-> Some(1), poisoned |-> FALSE ]
    /\ tests = [t \in Tests |-> IF t = 1 THEN HoldingBot ELSE NoBot]

\* ------------------------------------------------------------ the MockBot

no_reset(st) == st

\* self.state.lock().unwrap().reset()
dispatch_reset_state(st) == reset(st)

\* update(): replaces the updates between two dispatches.
update ==
    /\ pc = "idle"
    /\ nruns < MaxRuns
    /\ \E ups \in UpdateLists \ {updates} : updates' = ups
    /\ UNCHANGED <<state, state_lock, pc, server, events, calls, last, hist, ncalls, nruns>>
    /\ UNCHANGED <<bot_vars, run_vars, test_vars>>

\* dispatch(), line 294: the state is reset.
dispatch_reset ==
    /\ pc = "idle"
    /\ nruns < MaxRuns
    /\ lock_free(state_lock)
    /\ ~poisoned
    /\ state' = dispatch_reset_state(state)
    /\ pc' = "reset"
    /\ nruns' = nruns + 1
    /\ ncalls' = 0
    /\ hist' = EmptyHist
    /\ last' = NoLast
    /\ events' = <<>>
    /\ UNCHANGED <<state_lock, updates, server, calls>>
    /\ UNCHANGED <<bot_vars, run_vars, test_vars>>

\* A dispatch that would go on without a listening server.
server_not_started(status) == status

\* ServerManager::start(..).await.unwrap(): a fresh server listens.
server_start(status) == "Listening"

\* dispatch(), lines 296-298: a fresh server is started.
dispatch_start_server ==
    /\ pc = "reset"
    /\ server' = server_start(server)
    /\ pc' = "started"
    /\ UNCHANGED <<state, state_lock, updates, events, calls, last, hist, ncalls, nruns>>
    /\ UNCHANGED <<bot_vars, run_vars, test_vars>>

\* A dispatch that would register self.updates in place.
inserted_in_place(own, inserted) == inserted

\* let mut updates = self.updates.clone(): insert_updates rewrites the
\* clone, self.updates keeps what the test gave it.
stored_updates(own, inserted) == own

\* dispatch(), lines 300-301: the inbound updates are registered.
dispatch_insert_updates ==
    /\ pc = "started"
    /\ lock_free(state_lock)
    /\ LET r == insert_updates(state, updates)
       IN  /\ state' = r.state
           /\ events' = r.updates
           /\ updates' = stored_updates(updates, r.updates)
           /\ hist' = [hist EXCEPT !.created = @ \o r.created]
    /\ pc' = "inserted"
    /\ UNCHANGED <<state_lock, server, calls, last, ncalls, nruns>>
    /\ UNCHANGED <<bot_vars, run_vars, test_vars>>

\* The port of the server the n-th dispatch has started.
server_port(n) == n

\* An environment that would keep the TELOXIDE_API_URL it had.
keep_var(old, port) == old

\* env::set_var("TELOXIDE_API_URL", api_url.to_string())
set_var(old, port) == Some(port)

\* The key functions of the model: the default one keys an update by its
\* chat, the others give every update one key or no key at all.
DistributionFunctions == {default_distribution_function, "one_key", "no_key"}

\* distribution_f(&update)
distribution_key(f, u) ==
    CASE f = default_distribution_function ->
            IF IsSome(u.message) THEN Some(Unwrap(u.message).chat) ELSE None
      [] f = "one_key" -> Some(0)
      [] f = "no_key"  -> None

\* A dispatcher built without the bot's key function.
no_distribution_function(f) == "no_key"

\* Dispatcher::builder(..).distribution_function(distribution_f), line 272.
dispatcher_distribution_function(f) == f

\* The dispatcher queues every update of the listener, in submission order,
\* for the worker of its key.
spawn_workers(f, evs) ==
    [i \in 1..Len(evs) |-> [ key |-> distribution_key(f, evs[i]), pc |-> "queued", calls |-> 0 ]]

\* dispatch(), lines 303-309: the bot and the environment are pointed at
\* the server's port and the pipeline starts.
dispatch_run_updates ==
    /\ pc = "inserted"
    /\ pc' = "running"
    /\ api_url' = [ bot |-> Some(server_port(nruns)),
                    env |-> set_var(api_url.env, server_port(nruns)) ]
    /\ pipeline' = NoPipeline
    /\ workers' = spawn_workers(dispatcher_distribution_function(distribution_f), events)
    /\ UNCHANGED <<state, state_lock, updates, server, events, calls, last, hist, ncalls, nruns>>
    /\ UNCHANGED <<bot_vars, error_handler, errors>>
    /\ UNCHANGED <<distribution_f, dialogue_vars, poisoned>>

\* dispatch(), lines 309-311: the pipeline has completed, the server stops.
dispatch_stop_server ==
    /\ pc = "running"
    /\ \A c \in Callers : calls[c].pc = "idle"
    /\ server' = "Stopped"
    /\ pc' = "idle"
    /\ workers' = <<>>
    /\ UNCHANGED <<state, state_lock, updates, events, calls, last, hist, ncalls, nruns>>
    /\ UNCHANGED <<bot_vars, run_vars>>
    /\ UNCHANGED <<distribution_f, dialogue_vars, poisoned>>

\* ------------------------------------------------------ serving RPC calls

\* The handler returns: the guard is dropped and the envelope goes back.
Return(c, body, pre, result) ==
    /\ calls' = [calls EXCEPT ![c] = IdleCall]
    /\ state_lock' = state_lock \ {c}
    /\ last' = [ method |-> calls[c].method, body |-> Some(body),
                 pre |-> Some(pre), result |-> Some(result), client |-> "bot" ]

\* A request arrives at a route and is served by the first free caller;
\* get_raw_multipart_fields reads its payload.
call_begin(c) ==
    /\ pc = "running"
    /\ server = "Listening"
    /\ calls[c].pc = "idle"
    /\ \A d \in Callers : d < c => calls[d].pc # "idle"
    /\ ncalls < MaxCalls
    /\ \E method \in Methods :
          calls' = [calls EXCEPT ![c] = [IdleCall EXCEPT !.pc = "fields", !.method = method]]
    /\ ncalls' = ncalls + 1
    /\ UNCHANGED <<state, state_lock, updates, pc, server, events, last, hist, nruns>>
    /\ UNCHANGED <<bot_vars, run_vars, test_vars>>

\* let mut lock = state.lock().unwrap();
call_lock(c) ==
    /\ calls[c].pc = "fields"
    /\ lock_free(state_lock)
    /\ state_lock' = state_lock \cup {c}
    /\ calls' = [calls EXCEPT ![c].pc = "locked"]
    /\ UNCHANGED <<state, updates, pc, server, events, last, hist, ncalls, nruns>>
    /\ UNCHANGED <<bot_vars, run_vars, test_vars>>

\* send_*: the body is parsed, the reply target checked, the message built.
send_build(c) ==
    /\ calls[c].pc = "locked"
    /\ calls[c].method \in SendMethods
    /\ \E body \in SendBodies(calls[c].method) :
          IF reply_target_missing(state, body)
          THEN /\ Return(c, body, state, Err(MessageNotFound))
               /\ UNCHANGED <<state, hist>>
          ELSE /\ \E file_id \in FileIdTokens, file_unique_id \in FileUniqueIdTokens :
                     calls' = [calls EXCEPT ![c] =
                                 [ pc      |-> "built",
                                   method  |-> calls[c].method,
                                   body    |-> Some(body),
                                   pre     |-> Some(state),
                                   message |-> Some(send_message_draft(
                                       calls[c].method, state, body,
                                       file_id, file_unique_id)) ]]
               /\ UNCHANGED <<state, state_lock, last, hist>>
    /\ UNCHANGED <<updates, pc, server, events, ncalls, nruns>>
    /\ UNCHANGED <<bot_vars, run_vars, test_vars>>

\* send_*: max_message_id is read and the message stored.
send_add(c) ==
    /\ calls[c].pc = "built"
    /\ LET last_id == max_message_id(state)
           r == store_message(state, Unwrap(calls[c].message), last_id)
       IN  /\ state' = r.state
           /\ calls' = [calls EXCEPT ![c].pc = "added", ![c].message = Some(r.message)]
           /\ hist' = [hist EXCEPT !.created = Append(@, r.message.id)]
    /\ UNCHANGED <<state_lock, updates, pc, server, events, last, ncalls, nruns>>
    /\ UNCHANGED <<bot_vars, run_vars, test_vars>>

\* send_*: the File is pushed.
send_file(c) ==
    /\ calls[c].pc = "added"
    /\ state' = push_file(state, Unwrap(calls[c].message), Unwrap(calls[c].body))
    /\ calls' = [calls EXCEPT ![c].pc = "filed"]
    /\ UNCHANGED <<state_lock, updates, pc, server, events, last, hist, ncalls, nruns>>
    /\ UNCHANGED <<bot_vars, run_vars, test_vars>>

\* send_*: the message is appended to sent_messages.
send_log(c) ==
    /\ calls[c].pc = "filed"
    /\ state' = push_sent_message(state, Unwrap(calls[c].message))
    /\ calls' = [calls EXCEPT ![c].pc = "logged"]
    /\ UNCHANGED <<state_lock, updates, pc, server, events, last, hist, ncalls, nruns>>
    /\ UNCHANGED <<bot_vars, run_vars, test_vars>>

\* send_*: the message and the body are appended to the kind bucket, and
\* make_telegram_result(message) is returned.
send_return(c) ==
    /\ calls[c].pc = "logged"
    /\ state' = push_kind_bucket(state, calls[c].method,
                                 Unwrap(calls[c].message), Unwrap(calls[c].body))
    /\ Return(c, Unwrap(calls[c].body), Unwrap(calls[c].pre),
              Ok(Unwrap(calls[c].message)))
    /\ hist' = [hist EXCEPT !.sent = Append(@, Unwrap(calls[c].message))]
    /\ UNCHANGED <<updates, pc, server, events, ncalls, nruns>>
    /\ UNCHANGED <<bot_vars, run_vars, test_vars>>

\* edit_message_text, delete_message, pin_chat_message: one critical section.
other_call(c) ==
    /\ calls[c].pc = "locked"
    /\ calls[c].method \in OtherMethods
    /\ \E body \in OtherBodies(calls[c].method) :
          LET r == other_route(calls[c].method, state, body)
          IN  /\ state' = r.state
              /\ Return(c, body, state, r.result)
              /\ hist' = IF calls[c].method = "delete_message" /\ r.result.ok
                         THEN [hist EXCEPT !.deleted = @ \cup {body.message_id}]
                         ELSE hist
    /\ UNCHANGED <<updates, pc, server, events, ncalls, nruns>>
    /\ UNCHANGED <<bot_vars, run_vars, test_vars>>

Next ==
    \/ update
    \/ dispatch_reset
    \/ dispatch_start_server
    \/ dispatch_insert_updates
    \/ dispatch_run_updates
    \/ dispatch_stop_server
    \/ \E c \in Callers : call_begin(c)
    \/ \E c \in Callers : call_lock(c)
    \/ \E c \in Callers : send_build(c)
    \/ \E c \in Callers : send_add(c)
    \/ \E c \in Callers : send_file(c)
    \/ \E c \in Callers : send_log(c)
    \/ \E c \in Callers : send_return(c)
    \/ \E c \in Callers : other_call(c)

Spec == Init /\ [][Next]_vars

\* ------------------------------------------------ BOT_LOCK and the tests

\* No test has created a MockBot yet.
BotInit ==
    /\ MockBotNew
    /\ handler_tree = get_schema
    /\ updates = <<>>
    /\ bot_lock = FreeLock
    /\ tests = [t \in Tests |-> NoBot]

\* The constructors of MockBot.
Constructors == {"new", "new_with_distribution_function"}

\* A lock() that would not wait for the holder.
bot_lock_ignored(l) == TRUE

\* BOT_LOCK.lock() returns once no thread holds the mutex.
bot_lock_available(l) == l.holder = None

\* BOT_LOCK.lock().unwrap(): panics on a poisoned mutex.
lock_unwrap(l) == ~l.poisoned

\* BOT_LOCK.lock().unwrap_or_else(PoisonError::into_inner): the guard is
\* taken out of the result whether or not the mutex is poisoned.
lock_unwrap_or_into_inner(l) == TRUE

\* A test calls MockBot::new, directly or from
\* new_with_distribution_function (line 189), and reaches line 137.
new_call(t) ==
    /\ tests[t].pc = "idle"
    /\ \E ctor \in Constructors :
          tests' = [tests EXCEPT ![t] = [ pc |-> "new", ctor |-> ctor, acquired |-> 0 ]]
    /\ UNCHANGED <<state, state_lock, updates, pc, server, events, calls, last, hist,
                   ncalls, nruns, bot_lock, run_vars, test_vars>>

\* MockBot::new, lines 137-151: BOT_LOCK is acquired and the bot returned.
new_lock(t) ==
    /\ tests[t].pc = "new"
    /\ bot_lock_available(bot_lock)
    /\ IF lock_unwrap_or_into_inner(bot_lock)
       THEN /\ bot_lock' = [bot_lock EXCEPT !.holder = Some(t)]
            /\ tests' = [tests EXCEPT
                           ![t].pc = IF tests[t].ctor = "new" THEN "bot" ELSE "moving",
                           ![t].acquired = @ + 1]
       ELSE /\ tests' = [tests EXCEPT ![t].pc = "panicked"]
            /\ UNCHANGED bot_lock
    /\ UNCHANGED <<state, state_lock, updates, pc, server, events, calls, last, hist,
                   ncalls, nruns, run_vars, test_vars>>

\* new_with_distribution_function, lines 177-203: the fields of the bot,
\* the guard among them, are moved into the bot it returns.
new_with_distribution_function_return(t) ==
    /\ tests[t].pc = "moving"
    /\ tests' = [tests EXCEPT ![t].pc = "bot"]
    /\ UNCHANGED <<state, state_lock, updates, pc, server, events, calls, last, hist,
                   ncalls, nruns, bot_lock, run_vars, test_vars>>

\* The test ends and its MockBot goes out of scope: the guard is dropped.
drop_bot(t) ==
    /\ tests[t].pc = "bot"
    /\ tests' = [tests EXCEPT ![t].pc = "done"]
    /\ bot_lock' = [bot_lock EXCEPT !.holder = None]
    /\ UNCHANGED <<state, state_lock, updates, pc, server, events, calls, last, hist,
                   ncalls, nruns, run_vars, test_vars>>

\* The test panics with its MockBot in scope (test_panic): unwinding drops
\* the guard, which poisons the mutex.
test_panic(t) ==
    /\ tests[t].pc = "bot"
    /\ tests' = [tests EXCEPT ![t].pc = "panicked"]
    /\ bot_lock' = [ holder |-> None, poisoned |-> TRUE ]
    /\ UNCHANGED <<state, state_lock, updates, pc, server, events, calls, last, hist,
                   ncalls, nruns, run_vars, test_vars>>

BotNext ==
    \/ \E t \in Tests : new_call(t)
    \/ \E t \in Tests : new_lock(t)
    \/ \E t \in Tests : new_with_distribution_function_return(t)
    \/ \E t \in Tests : drop_bot(t)
    \/ \E t \in Tests : test_panic(t)

\* Every test that holds a bot ends, and a lock() that can return does.
BotSpec ==
    /\ BotInit
    /\ [][BotNext]_vars
    /\ \A t \in Tests : WF_vars(new_lock(t))
    /\ \A t \in Tests : WF_vars(new_with_distribution_function_return(t))
    /\ \A t \in Tests : WF_vars(drop_bot(t) \/ test_panic(t))

\* --------------------------------------------------- the further routes

\* SendMessageTextBody
TextBody(chat, text, reply) ==
    [ chat_id |-> chat, text |-> text, reply_parameters |-> reply ]

\* send_message: the reply target is resolved, the text message is stored
\* under the next ID and logged in sent_messages and sent_messages_text.
send_message(st, body) ==
    IF reply_target_missing(st, body)
    THEN [ state |-> st, result |-> Err(MessageNotFound) ]
    ELSE LET draft  == [TextMessage(0, body.text) EXCEPT
                            !.chat = body.chat_id,
                            !.from = "me",
                            !.reply_to_message = reply_to_message(st, body)]
             stored == store_message(st, draft, max_message_id(st))
             logged == push_sent_message(stored.state, stored.message)
         IN  [ state  |-> [logged EXCEPT !.responses.sent_messages_text =
                              Append(@, [ message |-> stored.message, bot_request |-> body ])],
               result |-> Ok(stored.message) ]

\* The acknowledgement envelope of the routes that return `true`.
Ack == [ ok |-> TRUE, description |-> "", message |-> None ]

\* A batch delete that would give up at the first unknown ID.
RECURSIVE delete_until_unknown(_, _)
delete_until_unknown(st, ids) ==
    IF ids = <<>> \/ ~check_if_message_exists(st, Head(ids)) THEN st
    ELSE delete_until_unknown(delete_message(st, [ message_id |-> Head(ids),
                                                   text |-> None ]).state, Tail(ids))

\* The batch of delete_messages, ID by ID: an existing message is deleted
\* and logged as by delete_message, any other ID is passed over.
RECURSIVE delete_each(_, _)
delete_each(st, ids) ==
    IF ids = <<>> THEN st
    ELSE delete_each(delete_message(st, [ message_id |-> Head(ids), text |-> None ]).state,
                     Tail(ids))

\* delete_messages
delete_messages(st, body) ==
    [ state |-> delete_each(st, body.message_ids), result |-> Ack ]

\* A ban that would leave the member's messages in place.
keep_messages(st, chat, user) == st

\* revoke_messages: every message of the user in the chat is tombstoned.
revoke_messages(st, chat, user) ==
    [st EXCEPT !.tombstones =
        @ \cup { st.messages[i].id : i \in { j \in 1..Len(st.messages) :
                    st.messages[j].chat = chat /\ st.messages[j].from = user } }]

\* ban_chat_member: the ban is logged; with revoke_messages the member's
\* messages in the chat are deleted.
ban_chat_member(st, body) ==
    LET revoked == IF UnwrapOr(body.revoke_messages, FALSE)
                   THEN revoke_messages(st, body.chat_id, body.user_id)
                   ELSE st
    IN  [ state |-> [revoked EXCEPT !.responses.banned_chat_members = Append(@, body)],
          result |-> Ack ]

\* The bucket of a route that only logs its request.
log_bucket(method) ==
    CASE method = "unban_chat_member"     -> "unbanned_chat_members"
      [] method = "restrict_chat_member"  -> "restricted_chat_members"
      [] method = "send_chat_action"      -> "sent_chat_actions"
      [] method = "set_my_commands"       -> "set_my_commands"
      [] method = "answer_callback_query" -> "answered_callback_queries"

LogMethods ==
    { "unban_chat_member", "restrict_chat_member", "send_chat_action", "set_my_commands",
      "answer_callback_query" }

\* A route that would log its request twice.
log_request_twice(method, st, body) ==
    [ state |-> [st EXCEPT !.responses[log_bucket(method)] = @ \o <<body, body>>],
      result |-> Ack ]

\* unban_chat_member, restrict_chat_member, send_chat_action,
\* set_my_commands, answer_callback_query: the request is logged and
\* acknowledged.
log_request(method, st, body) ==
    [ state |-> [st EXCEPT !.responses[log_bucket(method)] = Append(@, body)],
      result |-> Ack ]

\* set_message_reaction: not found, or the reaction logged.
set_message_reaction(st, body) ==
    IF ~check_if_message_exists(st, body.message_id)
    THEN [ state |-> st, result |-> Err(MessageNotFound) ]
    ELSE [ state |-> [st EXCEPT !.responses.set_message_reaction = Append(@, body)],
           result |-> Ack ]

\* A forward that would be dated as a new message.
forward_origin_now(original) == [ sender |-> original.from, date |-> 0 ]

\* The forward origin: the sender and the date of the original.
forward_origin(original) == [ sender |-> original.from, date |-> original.date ]

\* forward_message: not found, or a copy of the original with the next ID
\* and the forward origin, stored and logged in sent_messages and
\* forwarded_messages.
forward_message(st, body) ==
    IF ~check_if_message_exists(st, body.message_id)
    THEN [ state |-> st, result |-> Err(MessageNotFound) ]
    ELSE LET original == Unwrap(get_message(st, body.message_id))
             draft    == [original EXCEPT !.chat = body.chat_id,
                                          !.from = "me",
                                          !.date = 0,
                                          !.forward_origin = Some(forward_origin(original))]
             stored   == store_message(st, draft, max_message_id(st))
             logged   == push_sent_message(stored.state, stored.message)
         IN  [ state  |-> [logged EXCEPT !.responses.forwarded_messages =
                              Append(@, [ message |-> stored.message, bot_request |-> body ])],
               result |-> Ok(stored.message) ]

\* A group whose messages would all carry the caption of the first item.
first_caption(body, i) == body.media[1].caption

\* The caption of the i-th message of a group: that of its own item.
item_caption(body, i) == body.media[i].caption

\* The message send_media_group builds for the i-th item of the request.
group_message(st, body, i) ==
    LET item == body.media[i]
    IN  [ id                    |-> 0,
          chat                  |-> body.chat_id,
          kind                  |-> item.kind,
          from                  |-> "me",
          text                  |-> None,
          caption               |-> item_caption(body, i),
          caption_entities      |-> <<>>,
          has_protected_content |-> FALSE,
          date                  |-> 0,
          forward_origin        |-> None,
          reply_to_message      |-> reply_to_message(st, body),
          reply_markup          |-> None,
          media                 |-> Some([ file      |-> FileMeta(item, "f1", "u1"),
                                           file_name |-> Some(item.file_name) ]) ]

\* The items of a group from the i-th on: each message is stored under the
\* next ID, its file registered and the message logged in sent_messages.
RECURSIVE add_group(_, _, _, _)
add_group(st0, st, body, i) ==
    IF i > Len(body.media) THEN [ state |-> st, messages |-> <<>> ]
    ELSE LET stored == store_message(st, group_message(st0, body, i), max_message_id(st))
             filed  == push_file(stored.state, stored.message, body.media[i])
             rest   == add_group(st0, push_sent_message(filed, stored.message), body, i + 1)
         IN  [ state |-> rest.state, messages |-> <<stored.message>> \o rest.messages ]

\* send_media_group: the reply target is resolved, one message per item is
\* created, and the group is logged once with its messages and the request.
send_media_group(st, body) ==
    IF reply_target_missing(st, body)
    THEN [ state |-> st, result |-> Err(MessageNotFound) ]
    ELSE LET r == add_group(st, st, body, 1)
         IN  [ state  |-> [r.state EXCEPT !.responses.sent_media_group =
                              Append(@, [ messages |-> r.messages, bot_request |-> body ])],
               result |-> [ ok |-> TRUE, description |-> "",
                            message |-> Some(r.messages[1]), messages |-> r.messages ] ]

\* The routes of the server besides the uploads, the edit, the delete and
\* the pin.
further_route(method, st, body) ==
    CASE method = "send_message"         -> send_message(st, body)
      [] method = "delete_messages"      -> delete_messages(st, body)
      [] method = "ban_chat_member"      -> ban_chat_member(st, body)
      [] method = "set_message_reaction" -> set_message_reaction(st, body)
      [] method = "forward_message"      -> forward_message(st, body)
      [] method = "send_media_group"     -> send_media_group(st, body)
      [] method \in LogMethods           -> log_request(method, st, body)

\* ------------------------------------------ the pipeline and its errors

\* The updates of the tests that follow the pipeline (test_no_updates,
\* test_error_handler and a test with two messages).
RunUpdateLists ==
    { <<>>, <<MessageUpdate("a")>>, <<MessageUpdate("a"), MessageUpdate("b")>> }

RunInit ==
    /\ Init
    /\ updates \in RunUpdateLists

\* An error handler a test registers, like MyErrorHandler.
MyErrorHandler == "MyErrorHandler"

ConnectionRefused == "connection refused"

\* The RPC methods a handler of the pipeline calls.
HandlerMethods == {"send_document", "delete_message"}

HandlerBodies(method) ==
    IF method \in SendMethods THEN SendBodies(method) ELSE OtherBodies(method)

\* The route of the server that serves a method.
route(method, st, body, file_id, file_unique_id) ==
    IF method \in SendMethods
    THEN send_route(method, st, body, file_id, file_unique_id)
    ELSE IF method \in OtherMethods
         THEN other_route(method, st, body)
         ELSE further_route(method, st, body)

\* A request of a client pointed at `url`: it is served when a server
\* listens on that port, by the state the MockBot shares with its server.
rpc(url, port, status, method, st, body, file_id, file_unique_id) ==
    IF url = Some(port) /\ status = "Listening"
    THEN route(method, st, body, file_id, file_unique_id)
    ELSE [ state |-> st, result |-> Err(ConnectionRefused) ]

\* What a call adds to the history of the run.
record_call(h, method, body, result) ==
    IF ~result.ok THEN h
    ELSE IF method \in SendMethods \cup {"send_message"}
         THEN [h EXCEPT !.created = Append(@, Unwrap(result.message).id),
                        !.sent = Append(@, Unwrap(result.message))]
         ELSE IF method = "delete_message"
              THEN [h EXCEPT !.deleted = @ \cup {body.message_id}]
              ELSE h

\* A dispatcher built without the bot's error handler.
default_error_handler(registered) == LoggingErrorHandler

\* Dispatcher::builder(..).error_handler(error_handler), line 273.
dispatcher_error_handler(registered) == registered

\* A listener that would never end its stream of updates.
listener_never_ends(p, evs) == FALSE

\* InsertingListener { updates }: the stream ends after the last update.
listener_exhausted(p, evs) == p.delivered = Len(evs)

\* error_handler(): the test registers its own error handler.
set_error_handler ==
    /\ pc = "idle"
    /\ nruns < MaxRuns
    /\ error_handler = LoggingErrorHandler
    /\ error_handler' = MyErrorHandler
    /\ UNCHANGED <<state, state_lock, updates, pc, server, events, calls, last, hist,
                   ncalls, nruns, bot_vars, api_url, errors, pipeline, test_vars>>

\* The dispatcher takes the next update from the listener and runs the
\* handler tree on it: the handler returns Ok, or makes an RPC call through
\* the bot it was given and returns the call's error if it got one.
handle_update ==
    /\ pc = "running"
    /\ lock_free(state_lock)
    /\ pipeline.pending = None
    /\ pipeline.delivered < Len(events)
    /\ \/ /\ pipeline' = [pipeline EXCEPT !.delivered = @ + 1]
          /\ UNCHANGED <<state, last, hist>>
       \/ \E method \in HandlerMethods :
          \E body \in HandlerBodies(method) :
          \E file_id \in FileIdTokens, file_unique_id \in FileUniqueIdTokens :
             LET r == rpc(api_url.bot, server_port(nruns), server, method, state, body,
                          file_id, file_unique_id)
             IN  /\ state' = r.state
                 /\ last' = [ method |-> method, body |-> Some(body), pre |-> Some(state),
                              result |-> Some(r.result), client |-> "bot" ]
                 /\ hist' = IF r.result.ok
                            THEN record_call(hist, method, body, r.result)
                            ELSE [hist EXCEPT !.failed =
                                     Append(@, [ update |-> pipeline.delivered + 1,
                                                 error |-> r.result.description ])]
                 /\ pipeline' = [ delivered |-> pipeline.delivered + 1,
                                  pending |-> IF r.result.ok THEN None
                                              ELSE Some(r.result.description) ]
    /\ UNCHANGED <<state_lock, updates, pc, server, events, calls, ncalls, nruns,
                   bot_vars, api_url, error_handler, errors, test_vars>>

\* The dispatcher hands the handler's error to its error handler: the
\* default one logs it; a registered one records it and answers through a
\* bot it builds from the environment (respond_to_error).
handle_error ==
    /\ pc = "running"
    /\ lock_free(state_lock)
    /\ pipeline.pending # None
    /\ IF dispatcher_error_handler(error_handler) = LoggingErrorHandler
       THEN UNCHANGED <<state, last, hist, errors>>
       ELSE /\ errors' = Append(errors, [ run |-> nruns, update |-> pipeline.delivered,
                                          error |-> Unwrap(pipeline.pending) ])
            /\ \E body \in SendBodies("send_document") :
               \E file_id \in FileIdTokens, file_unique_id \in FileUniqueIdTokens :
                  LET r == rpc(api_url.env, server_port(nruns), server, "send_document",
                               state, body, file_id, file_unique_id)
                  IN  /\ state' = r.state
                      /\ last' = [ method |-> "send_document", body |-> Some(body),
                                   pre |-> Some(state), result |-> Some(r.result),
                                   client |-> "env" ]
                      /\ hist' = record_call(hist, "send_document", body, r.result)
    /\ pipeline' = [pipeline EXCEPT !.pending = None]
    /\ UNCHANGED <<state_lock, updates, pc, server, events, calls, ncalls, nruns,
                   bot_vars, api_url, error_handler, test_vars>>

\* run_updates returns once the listener is exhausted and every update
\* handled; dispatch() then stops the server.
run_updates_return ==
    /\ listener_exhausted(pipeline, events)
    /\ pipeline.pending = None
    /\ dispatch_stop_server

RunNext ==
    \/ update
    \/ set_error_handler
    \/ dispatch_reset
    \/ dispatch_start_server
    \/ dispatch_insert_updates
    \/ dispatch_run_updates
    \/ handle_update
    \/ handle_error
    \/ run_updates_return

\* Every step of a dispatch that can be taken is taken: the handlers and
\* the error handler return.
RunSpec ==
    /\ RunInit
    /\ [][RunNext]_vars
    /\ WF_vars(dispatch_start_server)
    /\ WF_vars(dispatch_insert_updates)
    /\ WF_vars(dispatch_run_updates)
    /\ WF_vars(handle_update)
    /\ WF_vars(handle_error)
    /\ WF_vars(run_updates_return)

\* ------------------------------------------- uploads and file retrieval

\* A test with one inbound text message.
FileInit ==
    /\ Init
    /\ updates = <<MessageUpdate("a")>>

\* A send call of the pipeline, served from lock to return.
upload ==
    /\ pc = "running"
    /\ server = "Listening"
    /\ lock_free(state_lock)
    /\ ncalls < MaxUploads
    /\ \E method \in SendMethods :
       \E body \in SendBodies(method) :
       \E file_id \in FileIdTokens, file_unique_id \in FileUniqueIdTokens :
          LET r == send_route(method, state, body, file_id, file_unique_id)
          IN  /\ state' = r.state
              /\ last' = [ method |-> method, body |-> Some(body),
                           pre |-> Some(state), result |-> Some(r.result),
                           client |-> "bot" ]
              /\ hist' = IF r.result.ok
                         THEN [hist EXCEPT
                                 !.created = Append(@, Unwrap(r.result.message).id),
                                 !.sent = Append(@, Unwrap(r.result.message))]
                         ELSE hist
    /\ ncalls' = ncalls + 1
    /\ UNCHANGED <<state_lock, updates, pc, server, events, calls, nruns>>
    /\ UNCHANGED <<bot_vars, run_vars, test_vars>>

\* A get_file call of the pipeline.
get_file_call ==
    /\ pc = "running"
    /\ server = "Listening"
    /\ lock_free(state_lock)
    /\ \E file_id \in FileIdTokens :
          LET body == [ file_id |-> file_id ]
          IN  last' = [ method |-> "get_file", body |-> Some(body),
                        pre |-> Some(state), result |-> Some(get_file(state, body)),
                        client |-> "bot" ]
    /\ UNCHANGED <<state, state_lock, updates, pc, server, events, calls, hist, ncalls, nruns>>
    /\ UNCHANGED <<bot_vars, run_vars, test_vars>>

FileNext ==
    \/ dispatch_reset
    \/ dispatch_start_server
    \/ dispatch_insert_updates
    \/ dispatch_run_updates
    \/ dispatch_stop_server
    \/ upload
    \/ get_file_call

FileSpec == FileInit /\ [][FileNext]_vars

\* ------------------------------------------- the keyed workers of a run

\* The RPC calls one handler makes at most.
MaxHandlerCalls == 2

\* The chats of the inbound messages.
Chats == {1, 2}

\* MockMessageText::new().text(text).chat(chat)
MessageUpdateIn(chat, text) ==
    [ kind |-> "Message",
      message |-> Some([TextMessage(0, text) EXCEPT !.chat = chat]),
      accessible |-> TRUE ]

\* The update lists of the tests of the ordering: their texts tell the
\* updates apart.
KeyUpdateLists ==
    { <<MessageUpdateIn(1, "a"), MessageUpdateIn(1, "b")>>,
      <<MessageUpdateIn(1, "a"), MessageUpdateIn(2, "b")>>,
      <<MessageUpdateIn(1, "a"), MessageUpdateIn(2, "b"), MessageUpdateIn(1, "c")>> }

KeyInit ==
    /\ MockBotNew
    /\ handler_tree = get_schema
    /\ updates \in KeyUpdateLists
    /\ bot_lock = [ holder |-> Some(1), poisoned |-> FALSE ]
    /\ tests = [t \in Tests |-> IF t = 1 THEN HoldingBot ELSE NoBot]

\* new_with_distribution_function(update, handler_tree, f): the bot of
\* MockBot::new with its key function replaced by f.
new_with_distribution_function ==
    /\ pc = "idle"
    /\ nruns = 0
    /\ distribution_f = default_distribution_function
    /\ \E f \in DistributionFunctions \ {default_distribution_function} :
          distribution_f' = f
    /\ UNCHANGED <<state, state_lock, updates, pc, server, events, calls, last, hist,
                   ncalls, nruns, bot_vars, run_vars, workers, dialogue_vars, poisoned>>

\* The worker of a key handles its updates one at a time in the order they
\* were queued; updates without a key are handled concurrently.
may_handle(w, i) ==
    /\ w[i].pc # "done"
    /\ \A j \in 1..(i - 1) :
          IsSome(w[i].key) /\ w[j].key = w[i].key => w[j].pc = "done"

\* The echo a handler sends for its update: a document to the update's
\* chat, captioned with the update's text.
EchoBody(u) ==
    [DocumentBody([ supplied |-> FALSE, file_name |-> BareName, file_data |-> <<>>,
                    reply |-> None ])
        EXCEPT !.chat_id = Unwrap(u.message).chat,
               !.caption = Unwrap(u.message).text]

\* The handler of update i makes one more RPC call through the bot.
worker_call(i) ==
    /\ pc = "running"
    /\ lock_free(state_lock)
    /\ i \in DOMAIN workers
    /\ may_handle(workers, i)
    /\ workers[i].calls < MaxHandlerCalls
    /\ \E file_id \in {"f1"}, file_unique_id \in FileUniqueIdTokens :
          LET body == EchoBody(events[i])
              r == rpc(api_url.bot, server_port(nruns), server, "send_document", state,
                       body, file_id, file_unique_id)
          IN  /\ state' = r.state
              /\ last' = [ method |-> "send_document", body |-> Some(body),
                           pre |-> Some(state), result |-> Some(r.result),
                           client |-> "bot" ]
              /\ hist' = record_call(hist, "send_document", body, r.result)
    /\ workers' = [workers EXCEPT ![i].pc = "handling", ![i].calls = @ + 1]
    /\ UNCHANGED <<state_lock, updates, pc, server, events, calls, ncalls, nruns,
                   bot_vars, run_vars, distribution_f, dialogue_vars, poisoned>>

\* The handler of update i returns.
worker_done(i) ==
    /\ pc = "running"
    /\ i \in DOMAIN workers
    /\ may_handle(workers, i)
    /\ workers' = [workers EXCEPT ![i].pc = "done"]
    /\ UNCHANGED <<state, state_lock, updates, pc, server, events, calls, last, hist,
                   ncalls, nruns, bot_vars, run_vars, distribution_f, dialogue_vars,
                   poisoned>>

\* run_updates returns once every worker has handled its updates.
workers_return ==
    /\ \A i \in DOMAIN workers : workers[i].pc = "done"
    /\ dispatch_stop_server

KeyNext ==
    \/ new_with_distribution_function
    \/ dispatch_reset
    \/ dispatch_start_server
    \/ dispatch_insert_updates
    \/ dispatch_run_updates
    \/ \E i \in DOMAIN workers : worker_call(i)
    \/ \E i \in DOMAIN workers : worker_done(i)
    \/ workers_return

KeySpec == KeyInit /\ [][KeyNext]_vars

\* ------------------------------------------------- the dialogue storages

\* enum State { #[default] Start, NotStart }
DialogueStates == {"Start", "NotStart"}

StateDefault == "Start"

\* A storage holds at most one dialogue per chat.
StorageNew == [c \in Chats |-> None]

get_dialogue(storage, chat) == storage[chat]

update_dialogue(storage, chat, s) == [storage EXCEPT ![chat] = Some(s)]

remove_dialogue(storage, chat) == [storage EXCEPT ![chat] = None]

\* deps![..] of a test: no storage, an InMemStorage, an ErasedStorage or both.
DependencyMaps ==
    { [ in_mem |-> i, erased |-> e ] : i \in {None, Some(StorageNew)},
                                       e \in {None, Some(StorageNew)} }

\* The storage a dialogue schema asks the dependencies for.
tree_storage(tree) ==
    IF tree = get_erased_dialogue_schema THEN "erased" ELSE "in_mem"

\* A probe that would prefer the ErasedStorage.
erased_storage_first(deps) ==
    IF IsSome(deps.erased) THEN Some("erased")
    ELSE IF IsSome(deps.in_mem) THEN Some("in_mem") ELSE None

\* get_potential_storages() and the if / else if on its result: the
\* InMemStorage when one is registered, else the ErasedStorage, else none.
first_storage(deps) ==
    IF IsSome(deps.in_mem) THEN Some("in_mem")
    ELSE IF IsSome(deps.erased) THEN Some("erased") ELSE None

\* A lookup that would always use chat 1.
fixed_chat_id(ups) == IF ups = <<>> THEN None ELSE Some(ChatId)

\* The chat of self.updates.first(); absent when there is no update or the
\* first update names no chat.
first_chat_id(ups) ==
    IF ups = <<>> THEN None
    ELSE IF IsSome(ups[1].message) THEN Some(Unwrap(ups[1].message).chat) ELSE None

\* The update lists of the dialogue tests.
DialogueUpdateLists ==
    { <<MessageUpdateIn(1, "test")>>,
      <<MessageUpdateIn(1, "exit")>>,
      <<MessageUpdateIn(2, "test"), MessageUpdateIn(1, "exit")>>,
      <<OtherUpdate>> }

DialogueInit ==
    /\ MockBotNew
    /\ handler_tree \in {get_dialogue_schema, get_erased_dialogue_schema}
    /\ updates \in DialogueUpdateLists
    /\ bot_lock = [ holder |-> Some(1), poisoned |-> FALSE ]
    /\ tests = [t \in Tests |-> IF t = 1 THEN HoldingBot ELSE NoBot]

\* dependencies(deps): the dependency map is replaced.
set_dependencies ==
    /\ pc = "idle"
    /\ nruns = 0
    /\ dependencies = DependencyMapNew
    /\ \E deps \in DependencyMaps \ {DependencyMapNew} : dependencies' = deps
    /\ UNCHANGED <<state, state_lock, updates, pc, server, events, calls, last, hist,
                   ncalls, nruns, bot_vars, run_vars, distribution_f, workers,
                   handler_tree, observed, poisoned, runs, panic_hook, probes, me>>

\* What a call of the test on the dialogue of the first update's chat does:
\* it panics without an update, a chat or a storage; else it reads or
\* writes the first storage found.
dialogue_call(op, arg, deps, ups, before) ==
    LET chat    == first_chat_id(ups)
        storage == first_storage(deps)
        found   == IsSome(chat) /\ IsSome(storage)
        held    == get_dialogue(Unwrap(deps[Unwrap(storage)]), Unwrap(chat))
        post    == IF found /\ op = "set_state"
                   THEN [deps EXCEPT ![Unwrap(storage)] =
                            Some(update_dialogue(Unwrap(@), Unwrap(chat), Unwrap(arg)))]
                   ELSE deps
    IN  [ op       |-> op,
          arg      |-> arg,
          chat     |-> chat,
          storage  |-> storage,
          pre      |-> Some(deps),
          post     |-> Some(post),
          value    |-> IF ~found THEN None
                       ELSE CASE op = "set_state"     -> None
                              [] op = "try_get_state" -> held
                              [] op = "get_state"     -> Some(UnwrapOr(held, StateDefault)),
          panicked |-> ~found,
          after    |-> before.op ]

\* The test thread goes on after a call, or unwinds when the call panicked.
after_call(o) == IF o.panicked THEN "panicked" ELSE "idle"

\* set_state(state)
set_state ==
    /\ pc = "idle"
    /\ \E s \in DialogueStates :
          LET o == dialogue_call("set_state", Some(s), dependencies, updates, observed)
          IN  /\ observed' = o
              /\ dependencies' = Unwrap(o.post)
              /\ pc' = after_call(o)
    /\ UNCHANGED <<state, state_lock, updates, server, events, calls, last, hist,
                   ncalls, nruns, bot_vars, run_vars, distribution_f, workers,
                   handler_tree, poisoned, runs, panic_hook, probes, me>>

\* try_get_state()
try_get_state ==
    /\ pc = "idle"
    /\ LET o == dialogue_call("try_get_state", None, dependencies, updates, observed)
       IN  /\ observed' = o
           /\ pc' = after_call(o)
    /\ UNCHANGED <<state, state_lock, updates, server, events, calls, last, hist,
                   ncalls, nruns, bot_vars, run_vars, distribution_f, workers,
                   handler_tree, dependencies, poisoned, runs, panic_hook, probes, me>>

\* get_state(): try_get_state().await.unwrap_or(S::default())
get_state ==
    /\ pc = "idle"
    /\ LET o == dialogue_call("get_state", None, dependencies, updates, observed)
       IN  /\ observed' = o
           /\ pc' = after_call(o)
    /\ UNCHANGED <<state, state_lock, updates, server, events, calls, last, hist,
                   ncalls, nruns, bot_vars, run_vars, distribution_f, workers,
                   handler_tree, dependencies, poisoned, runs, panic_hook, probes, me>>

\* A dispatcher that would get storages of its own.
fresh_dependencies(deps) ==
    [ k \in DOMAIN deps |-> IF IsSome(deps[k]) THEN Some(StorageNew) ELSE None ]

\* let deps = self.dependencies.clone(); .dependencies(deps): the clone
\* shares the storages of the bot's map.
dispatcher_dependencies(deps) == deps

\* What the endpoint of a dialogue schema does with the dialogue it was
\* given: the reply it sends and the dialogue it leaves (none after exit).
endpoint(tree, held, text) ==
    IF tree = get_dialogue_schema /\ held = "NotStart"
    THEN [ reply |-> "Not start!", op |-> "update", left |-> Some("Start") ]
    ELSE IF tree = get_dialogue_schema /\ text = "exit"
         THEN [ reply |-> text, op |-> "exit", left |-> None ]
         ELSE [ reply |-> text, op |-> "update", left |-> Some("NotStart") ]

\* The dispatcher runs a dialogue schema on the next update: dialogue::enter
\* takes the storage from the dependencies and the dialogue of the update's
\* chat (the default one when none is stored); the endpoint answers the
\* message and updates or exits the dialogue. An update that is no message
\* is not handled; without the storage the dispatcher panics.
dialogue_update ==
    /\ pc = "running"
    /\ lock_free(state_lock)
    /\ pipeline.pending = None
    /\ pipeline.delivered < Len(events)
    /\ LET u    == events[pipeline.delivered + 1]
           deps == dispatcher_dependencies(dependencies)
           name == tree_storage(handler_tree)
       IN  IF deps[name] = None
           THEN /\ pc' = "panicked"
                /\ UNCHANGED <<state, last, hist, dependencies, observed, pipeline>>
           ELSE IF u.kind # "Message"
           THEN /\ pipeline' = [pipeline EXCEPT !.delivered = @ + 1]
                /\ UNCHANGED <<state, last, hist, dependencies, observed, pc>>
           ELSE LET m    == Unwrap(u.message)
                    got  == get_dialogue(Unwrap(deps[name]), m.chat)
                    e    == endpoint(handler_tree, UnwrapOr(got, StateDefault), Unwrap(m.text))
                    body == TextBody(m.chat, e.reply, None)
                    r    == rpc(api_url.bot, server_port(nruns), server, "send_message",
                                state, body, "f1", "u1")
                    left == IF ~r.result.ok THEN Unwrap(deps[name])
                            ELSE IF e.op = "exit"
                                 THEN remove_dialogue(Unwrap(deps[name]), m.chat)
                                 ELSE update_dialogue(Unwrap(deps[name]), m.chat,
                                                      Unwrap(e.left))
                IN  /\ state' = r.state
                    /\ last' = [ method |-> "send_message", body |-> Some(body),
                                 pre |-> Some(state), result |-> Some(r.result),
                                 client |-> "bot" ]
                    /\ hist' = record_call(hist, "send_message", body, r.result)
                    /\ dependencies' = [deps EXCEPT ![name] = Some(left)]
                    /\ observed' = [ op |-> e.op, arg |-> e.left, chat |-> Some(m.chat),
                                     storage |-> Some(name), pre |-> Some(dependencies),
                                     post |-> Some(dependencies'), value |-> got,
                                     panicked |-> FALSE, after |-> observed.op ]
                    /\ pipeline' = [pipeline EXCEPT !.delivered = @ + 1]
                    /\ pc' = pc
    /\ UNCHANGED <<state_lock, updates, server, events, calls, ncalls, nruns,
                   bot_vars, api_url, error_handler, errors, distribution_f, workers,
                   handler_tree, poisoned, runs, panic_hook, probes, me>>

DialogueNext ==
    \/ set_dependencies
    \/ set_state
    \/ try_get_state
    \/ get_state
    \/ dispatch_reset
    \/ dispatch_start_server
    \/ dispatch_insert_updates
    \/ dispatch_run_updates
    \/ dialogue_update
    \/ run_updates_return

DialogueSpec == DialogueInit /\ [][DialogueNext]_vars

\* ---------------------------------------------------- malformed requests

\* What may be wrong with the fields of a request.
Defects ==
    { "chat_id missing", "chat_id mistyped", "file name missing", "file data missing" }

\* The requests a client may send to an upload route: the fields of a
\* body, well-formed or with a required field missing or holding a value
\* of the wrong type.
RawBodies(method) ==
    { [ fields |-> b, defect |-> d ] : b \in SendBodies(method), d \in {""} \cup Defects }

\* serialize_raw_fields(&fields, &attachments, file_type): the typed body,
\* or nothing when a required field is missing or of the wrong type.
serialize_raw_fields(raw) ==
    IF raw.defect \in Defects THEN None ELSE Some(raw.fields)

\* What a client gets when the handler of its request panicked: the
\* connection is closed without an answer.
NoResponse == [ ok |-> FALSE, description |-> "no response", message |-> None ]

BadRequest == "Bad Request"

\* A send handler from its first to its last line: state.lock().unwrap()
\* panics on a poisoned mutex; serialize_raw_fields(..).unwrap() panics on
\* a malformed request while the guard is held, which poisons the mutex;
\* else the route goes on as for any well-formed request.
send_handler(method, st, psn, raw, file_id, file_unique_id) ==
    IF psn
    THEN [ state |-> st, poisoned |-> TRUE, result |-> NoResponse ]
    ELSE IF serialize_raw_fields(raw) = None
         THEN [ state |-> st, poisoned |-> TRUE, result |-> NoResponse ]
         ELSE LET r == send_route(method, st, Unwrap(serialize_raw_fields(raw)),
                                  file_id, file_unique_id)
              IN  [ state |-> r.state, poisoned |-> FALSE, result |-> r.result ]

\* A client's request to one of the upload routes is served.
raw_send_call ==
    /\ pc = "running"
    /\ server = "Listening"
    /\ lock_free(state_lock)
    /\ ncalls < MaxCalls
    /\ \E method \in SendMethods :
       \E raw \in RawBodies(method) :
       \E file_id \in {"f1"}, file_unique_id \in FileUniqueIdTokens :
          LET r == send_handler(method, state, poisoned, raw, file_id, file_unique_id)
          IN  /\ state' = r.state
              /\ poisoned' = r.poisoned
              /\ last' = [ method |-> method, body |-> Some(raw), pre |-> Some(state),
                           result |-> Some(r.result), client |-> "bot" ]
    /\ ncalls' = ncalls + 1
    /\ UNCHANGED <<state_lock, updates, pc, server, events, calls, hist, nruns,
                   bot_vars, run_vars, distribution_f, workers, dialogue_vars>>

\* dispatch(), line 294, on a poisoned mutex: self.state.lock().unwrap()
\* panics.
dispatch_reset_poisoned ==
    /\ pc = "idle"
    /\ poisoned
    /\ pc' = "panicked"
    /\ UNCHANGED <<state, state_lock, updates, server, events, calls, last, hist, ncalls,
                   nruns, bot_vars, run_vars, test_vars>>

ParseInit ==
    /\ Init
    /\ updates = <<MessageUpdate("a")>>

ParseNext ==
    \/ dispatch_reset
    \/ dispatch_reset_poisoned
    \/ dispatch_start_server
    \/ dispatch_insert_updates
    \/ dispatch_run_updates
    \/ raw_send_call
    \/ dispatch_stop_server

ParseSpec == ParseInit /\ [][ParseNext]_vars

\* ------------------------------------------ the calls of the test handler

\* The RPC calls the handlers of one run make at most.
MaxRouteCalls == 3

\* MockMessageText::new().text(text).chat(chat).date(date)
DatedUpdate(chat, text, date) ==
    [ kind |-> "Message",
      message |-> Some([TextMessage(0, text) EXCEPT !.chat = chat, !.date = date]),
      accessible |-> TRUE ]

\* Two messages of the user, in two chats.
RouteUpdates == <<DatedUpdate(1, "a", 1), DatedUpdate(2, "b", 2)>>

Mp3Name == <<"1", ".", "m", "p", "3">>

\* InputMedia::Audio(InputMediaAudio::new(file).caption(caption))
AudioItem(caption, data) ==
    [ kind |-> "audio", file_name |-> Mp3Name, file_data |-> data, caption |-> caption ]

\* The media groups of the handler: two items captioned "test" and not at
\* all, and a group of three.
MediaGroups ==
    { << AudioItem(Some("test"), <<1>>), AudioItem(None, <<1, 2>>) >>,
      << AudioItem(None, <<1>>), AudioItem(Some("test"), <<1, 2>>),
         AudioItem(Some("c"), <<>>) >> }

RouteMethods ==
    { "send_message", "delete_message", "delete_messages", "ban_chat_member",
      "set_message_reaction", "forward_message", "send_media_group" } \cup LogMethods

\* The requests of the commands of the test handler.
RouteBodies(method) ==
    CASE method = "send_message" ->
            { TextBody(ChatId, "a", r) : r \in {None, Some(1)} }
      [] method = "delete_message" -> OtherBodies(method)
      [] method = "delete_messages" ->
            { [ chat_id |-> ChatId, message_ids |-> ids ] :
                ids \in { <<1, UnknownMessageId>>, <<UnknownMessageId, 1>>,
                          <<UnknownMessageId, 3, 1>> } }
      [] method = "ban_chat_member" ->
            { [ chat_id |-> ChatId, user_id |-> "user", revoke_messages |-> r ] :
                r \in {None, Some(TRUE)} }
      [] method = "unban_chat_member" -> { [ chat_id |-> ChatId, user_id |-> "user" ] }
      [] method = "restrict_chat_member" ->
            { [ chat_id |-> ChatId, user_id |-> "user", permissions |-> {} ] }
      [] method = "send_chat_action" -> { [ chat_id |-> ChatId, action |-> "typing" ] }
      [] method = "set_my_commands" ->
            { [ commands |-> << [ command |-> "test", description |-> "test" ] >> ] }
      [] method = "answer_callback_query" ->
            { [ callback_query_id |-> "q", text |-> Some("test") ] }
      [] method = "set_message_reaction" ->
            { [ chat_id |-> ChatId, message_id |-> id, reaction |-> <<"+1">> ] :
                id \in TargetIds }
      [] method = "forward_message" ->
            { [ chat_id |-> ChatId, from_chat_id |-> ChatId, message_id |-> id ] :
                id \in {1, 3, UnknownMessageId} }
      [] method = "send_media_group" ->
            { [ chat_id |-> ChatId, media |-> g, reply_parameters |-> r ] :
                g \in MediaGroups, r \in {None, Some(1), Some(UnknownMessageId)} }

RouteInit ==
    /\ MockBotNew
    /\ handler_tree = get_schema
    /\ updates = RouteUpdates
    /\ bot_lock = [ holder |-> Some(1), poisoned |-> FALSE ]
    /\ tests = [t \in Tests |-> IF t = 1 THEN HoldingBot ELSE NoBot]

\* A handler of the pipeline makes one RPC call through the bot and the
\* server answers it.
route_call ==
    /\ pc = "running"
    /\ lock_free(state_lock)
    /\ ncalls < MaxRouteCalls
    /\ \E method \in RouteMethods :
       \E body \in RouteBodies(method) :
          LET r == rpc(api_url.bot, server_port(nruns), server, method, state, body,
                       "f1", "u1")
          IN  /\ state' = r.state
              /\ last' = [ method |-> method, body |-> Some(body), pre |-> Some(state),
                           result |-> Some(r.result), client |-> "bot" ]
    /\ ncalls' = ncalls + 1
    /\ UNCHANGED <<state_lock, updates, pc, server, events, calls, hist, nruns,
                   bot_vars, run_vars, test_vars>>

RouteNext ==
    \/ dispatch_reset
    \/ dispatch_start_server
    \/ dispatch_insert_updates
    \/ dispatch_run_updates
    \/ route_call
    \/ dispatch_stop_server

RouteSpec == RouteInit /\ [][RouteNext]_vars

\* ------------------------------------------------- dispatching again

\* The run that has just begun is put on record: the updates and the
\* dialogues it starts from.
note_run_start ==
    /\ pc = "reset"
    /\ Len(runs) < nruns
    /\ runs' = Append(runs, [ updates |-> updates, dialogues |-> dependencies,
                              events |-> None, responses |-> None ])
    /\ UNCHANGED <<state, state_lock, updates, pc, server, events, calls, last, hist,
                   ncalls, nruns, bot_vars, run_vars, distribution_f, workers,
                   handler_tree, dependencies, observed, poisoned, panic_hook, probes, me>>

\* Every run that has returned is on record with what it left.
RunsNoted == Len(runs) = nruns /\ (runs # <<>> => IsSome(runs[Len(runs)].responses))

\* After dispatch() has returned the test reads get_responses(); the
\* events the run delivered and the log it left are put on record.
note_run_end ==
    /\ pc = "idle"
    /\ Len(runs) = nruns
    /\ ~RunsNoted
    /\ runs' = [runs EXCEPT ![nruns].events = Some(events),
                            ![nruns].responses = Some(get_responses(state))]
    /\ UNCHANGED <<state, state_lock, updates, pc, server, events, calls, last, hist,
                   ncalls, nruns, bot_vars, run_vars, distribution_f, workers,
                   handler_tree, dependencies, observed, poisoned, panic_hook, probes, me>>

\* The dialogue tests with every run on record: the test may change the
\* updates and the dialogue between two dispatches.
RepeatNext ==
    \/ set_dependencies
    \/ RunsNoted /\ set_state
    \/ RunsNoted /\ update
    \/ RunsNoted /\ dispatch_reset
    \/ note_run_start
    \/ Len(runs) = nruns /\ dispatch_start_server
    \/ dispatch_insert_updates
    \/ dispatch_run_updates
    \/ dialogue_update
    \/ run_updates_return
    \/ note_run_end

RepeatSpec == DialogueInit /\ [][RepeatNext]_vars

\* ------------------------------------------------ a panicking pipeline

\* The handler of the next update panics: the dispatcher running inside
\* the spawn_blocking closure (lines 263-281) panics with it, and the
\* JoinHandle that run_updates awaits yields an error.
handler_panic ==
    /\ pc = "running"
    /\ lock_free(state_lock)
    /\ pipeline.pending = None
    /\ pipeline.delivered < Len(events)
    /\ pc' = "joined_err"
    /\ UNCHANGED <<state, state_lock, updates, server, events, calls, last, hist, ncalls,
                   nruns, bot_vars, run_vars, test_vars>>

\* A run_updates that would drop the result of the join.
join_ignored(joined) == "returned"

\* .await.expect("Dispatcher panicked!"), lines 282-283.
expect(joined) == IF joined = "Err" THEN "panicked" ELSE "returned"

\* run_updates, lines 282-283, on the error of the join: the expect panics
\* and unwinds dispatch() before server.stop() (line 311); had run_updates
\* returned, dispatch() would stop the server and return.
run_updates_expect ==
    /\ pc = "joined_err"
    /\ IF expect("Err") = "panicked"
       THEN /\ pc' = "panicked"
            /\ UNCHANGED server
       ELSE /\ pc' = "idle"
            /\ server' = "Stopped"
    /\ UNCHANGED <<state, state_lock, updates, events, calls, last, hist, ncalls,
                   nruns, bot_vars, run_vars, test_vars>>

PanicNext ==
    \/ update
    \/ set_error_handler
    \/ dispatch_reset
    \/ dispatch_start_server
    \/ dispatch_insert_updates
    \/ dispatch_run_updates
    \/ handle_update
    \/ handle_error
    \/ handler_panic
    \/ run_updates_expect
    \/ run_updates_return

PanicSpec == RunInit /\ [][PanicNext]_vars

\* --------------------------------------------- reading the Response Log

\* A get_responses that would hand out the log itself.
responses_ref(log) == [ value |-> log, shared |-> TRUE, popped |-> <<>> ]

\* .responses.clone(): the test gets a value of its own, which shares
\* nothing with the State.
responses_clone(log) == [ value |-> log, shared |-> FALSE, popped |-> <<>> ]

\* get_responses(), line 317, called by the test between two dispatches:
\* self.state.lock().unwrap() panics on a poisoned mutex, else the test
\* gets a clone of the Response Log.
get_responses_call ==
    /\ pc = "idle"
    /\ nruns > 0
    /\ lock_free(state_lock)
    /\ IF poisoned
       THEN /\ pc' = "panicked"
            /\ last' = [ method |-> "get_responses", body |-> None, pre |-> Some(state),
                         result |-> None, client |-> "test" ]
       ELSE /\ pc' = pc
            /\ last' = [ method |-> "get_responses", body |-> None, pre |-> Some(state),
                         result |-> Some(responses_clone(get_responses(state))),
                         client |-> "test" ]
    /\ UNCHANGED <<state, state_lock, updates, server, events, calls, hist, ncalls, nruns,
                   bot_vars, run_vars, test_vars>>

\* bot.get_responses().sent_messages.pop(): the test takes the last entry
\* off the value it was given; what shares storage with it changes too.
pop_returned ==
    /\ pc = "idle"
    /\ last.method = "get_responses"
    /\ IsSome(last.result)
    /\ Unwrap(last.result).value.sent_messages # <<>>
    /\ LET r == Unwrap(last.result)
           sent == r.value.sent_messages
           rest == SubSeq(sent, 1, Len(sent) - 1)
       IN  /\ last' = [last EXCEPT !.result =
                         Some([ value |-> [r.value EXCEPT !.sent_messages = rest],
                                shared |-> r.shared,
                                popped |-> <<sent[Len(sent)]>> \o r.popped ])]
           /\ state' = IF r.shared
                       THEN [state EXCEPT !.responses.sent_messages = rest]
                       ELSE state
    /\ UNCHANGED <<state_lock, updates, pc, server, events, calls, hist, ncalls, nruns,
                   bot_vars, run_vars, test_vars>>

\* me(me), called after a run: the bot's parameters are replaced.
set_me ==
    /\ pc = "idle"
    /\ nruns > 0
    /\ \E m \in {MockMe, "MockMe first_name"} \ {me} : me' = m
    /\ UNCHANGED <<state, state_lock, updates, pc, server, events, calls, last, hist,
                   ncalls, nruns, bot_vars, run_vars, distribution_f, workers,
                   handler_tree, dependencies, observed, poisoned, runs, panic_hook, probes>>

\* dependencies(deps![InMemStorage::<State>::new()]), called after a run.
dependencies_call ==
    /\ pc = "idle"
    /\ nruns > 0
    /\ dependencies' = [ in_mem |-> Some(StorageNew), erased |-> None ]
    /\ dependencies' # dependencies
    /\ UNCHANGED <<state, state_lock, updates, pc, server, events, calls, last, hist,
                   ncalls, nruns, bot_vars, run_vars, distribution_f, workers,
                   handler_tree, observed, poisoned, runs, panic_hook, probes, me>>

\* The runs of RunSpec with the test reading the log and configuring the
\* bot between them.
SnapshotNext ==
    \/ update
    \/ set_error_handler
    \/ set_me
    \/ dependencies_call
    \/ dispatch_reset
    \/ dispatch_start_server
    \/ dispatch_insert_updates
    \/ dispatch_run_updates
    \/ handle_update
    \/ handle_error
    \/ run_updates_return
    \/ get_responses_call
    \/ pop_returned

SnapshotSpec == RunInit /\ [][SnapshotNext]_vars

\* The runs of ParseSpec with the test reading the log between them.
PoisonNext ==
    \/ dispatch_reset
    \/ dispatch_reset_poisoned
    \/ dispatch_start_server
    \/ dispatch_insert_updates
    \/ dispatch_run_updates
    \/ raw_send_call
    \/ dispatch_stop_server
    \/ get_responses_call

PoisonSpec == ParseInit /\ [][PoisonNext]_vars

\* ------------------------------------------- the bot's life and its runs

\* The test of thread 1 owns the MockBot whose fields the model follows; it
\* calls dispatch() only between MockBot::new and the end of the test.
bot_dispatch ==
    /\ tests[1].pc = "bot"
    /\ \/ dispatch_reset
       \/ dispatch_start_server
       \/ dispatch_insert_updates
       \/ dispatch_run_updates
       \/ dispatch_stop_server

\* A test ends, or panics, outside dispatch(): its bot goes out of scope.
test_end(t) ==
    /\ t = 1 => pc = "idle"
    /\ \/ drop_bot(t)
       \/ test_panic(t)

\* A test that has a MockBot in scope calls MockBot::new again and reaches
\* line 137 with the guard of its first bot alive.
new_again_call(t) ==
    /\ tests[t].pc = "bot"
    /\ t = 1 => pc = "idle"
    /\ tests' = [tests EXCEPT ![t].pc = "renew"]
    /\ UNCHANGED <<state, state_lock, updates, pc, server, events, calls, last, hist,
                   ncalls, nruns, bot_lock, run_vars, test_vars>>

\* BOT_LOCK.lock() in the thread that holds the std::sync::Mutex: the call
\* does not return; it blocks for ever or panics.
lock_by_holder(l, t) == {"deadlocked", "panicked"}

\* MockBot::new, line 137, in the thread that holds BOT_LOCK.  A panic
\* unwinds the test, which drops the first bot's guard and poisons the
\* mutex.
new_again_lock(t) ==
    /\ tests[t].pc = "renew"
    /\ bot_lock.holder = Some(t)
    /\ \E outcome \in lock_by_holder(bot_lock, t) :
          /\ tests' = [tests EXCEPT ![t].pc = outcome]
          /\ bot_lock' = IF outcome = "panicked"
                         THEN [ holder |-> None, poisoned |-> TRUE ]
                         ELSE bot_lock
    /\ UNCHANGED <<state, state_lock, updates, pc, server, events, calls, last, hist,
                   ncalls, nruns, run_vars, test_vars>>

LockNext ==
    \/ \E t \in Tests : new_call(t)
    \/ \E t \in Tests : new_lock(t)
    \/ \E t \in Tests : new_with_distribution_function_return(t)
    \/ \E t \in Tests : test_end(t)
    \/ \E t \in Tests : new_again_call(t)
    \/ \E t \in Tests : new_again_lock(t)
    \/ bot_dispatch

\* A lock() that can return does, and a lock() by the holder meets its fate.
LockSpec ==
    /\ BotInit
    /\ [][LockNext]_vars
    /\ \A t \in Tests : WF_vars(new_lock(t))
    /\ \A t \in Tests : WF_vars(new_again_lock(t))

\* ------------------------------------------------- probing for storages

\* The variables get_potential_storages() leaves alone.
probe_unchanged ==
    <<state, state_lock, updates, pc, server, events, calls, last, hist, ncalls, nruns,
      bot_vars, run_vars, distribution_f, workers, handler_tree, dependencies, observed,
      poisoned, runs, me>>

\* let default_panic = panic::take_hook(): the thread keeps the installed
\* hook, and std registers its default hook in its place.
take_hook(p) ==
    /\ pc = "idle"
    /\ probes[p].pc = "idle"
    /\ probes[p].returned < MaxProbes
    /\ probes' = [probes EXCEPT ![p].pc = "taken",
                                ![p].default_panic = Some(panic_hook.installed),
                                ![p].found = None]
    /\ panic_hook' = [panic_hook EXCEPT !.installed = DefaultHook]
    /\ UNCHANGED probe_unchanged

\* panic::set_hook(Box::new(|_| {}))
set_hook_silent(p) ==
    /\ probes[p].pc = "taken"
    /\ probes' = [probes EXCEPT ![p].pc = "silenced"]
    /\ panic_hook' = [panic_hook EXCEPT !.installed = SilentHook]
    /\ UNCHANGED probe_unchanged

\* Gag::stderr().unwrap(): stderr takes one gag at a time, so the unwrap
\* panics while another thread holds its gag, and the thread unwinds with
\* the hook it took.
gag_stderr(p) ==
    /\ probes[p].pc = "silenced"
    /\ IF panic_hook.gagged
       THEN /\ probes' = [probes EXCEPT ![p].pc = "panicked"]
            /\ UNCHANGED panic_hook
       ELSE /\ probes' = [probes EXCEPT ![p].pc = "gagged"]
            /\ panic_hook' = [panic_hook EXCEPT !.gagged = TRUE]
    /\ UNCHANGED probe_unchanged

\* The storages the two probing threads came back with: dependencies.get()
\* panics in the thread when the map has no such storage, and join().ok()
\* makes None of it.
probed_storages(deps) ==
    [ in_mem_storage |-> IsSome(deps.in_mem), erased_storage |-> IsSome(deps.erased) ]

\* std::thread::spawn(move || dependencies.get()).join().ok(), twice
probe_storages(p) ==
    /\ probes[p].pc = "gagged"
    /\ probes' = [probes EXCEPT ![p].pc = "probed",
                                ![p].found = Some(probed_storages(dependencies))]
    /\ UNCHANGED <<panic_hook, probe_unchanged>>

\* panic::set_hook(default_panic)
set_hook_default_panic(p) ==
    /\ probes[p].pc = "probed"
    /\ probes' = [probes EXCEPT ![p].pc = "restored", ![p].default_panic = None]
    /\ panic_hook' = [panic_hook EXCEPT !.installed = Unwrap(probes[p].default_panic)]
    /\ UNCHANGED probe_unchanged

\* drop(print_gag); (in_mem_storage, erased_storage)
get_potential_storages_return(p) ==
    /\ probes[p].pc = "restored"
    /\ probes' = [probes EXCEPT ![p].pc = "idle", ![p].returned = @ + 1]
    /\ panic_hook' = [panic_hook EXCEPT !.gagged = FALSE]
    /\ UNCHANGED probe_unchanged

\* The threads of a test that shares its MockBot call set_state and its kin,
\* after the test registered its storages.
HookNext ==
    \/ (\A p \in Probers : probes[p] = NoProbe) /\ set_dependencies
    \/ \E p \in Probers : take_hook(p)
    \/ \E p \in Probers : set_hook_silent(p)
    \/ \E p \in Probers : gag_stderr(p)
    \/ \E p \in Probers : probe_storages(p)
    \/ \E p \in Probers : set_hook_default_panic(p)
    \/ \E p \in Probers : get_potential_storages_return(p)

HookSpec == DialogueInit /\ [][HookNext]_vars

\* ------------------------------------------------------------ properties

InSection == {"locked", "built", "added", "filed", "logged"}

IsPrefix(s, t) == Len(s) <= Len(t) /\ SubSeq(t, 1, Len(s)) = s

Last(s) == s[Len(s)]

Range(s) == { s[i] : i \in 1..Len(s) }

MessagesOf(bucket) == [i \in 1..Len(bucket) |-> bucket[i].message]

DeletedIds(st) == { e.message.id : e \in Range(st.responses.deleted_messages) }

LastIsSend == last.method \in SendMethods

LastTargetsMessage == last.method \in OtherMethods

\* C1: within one run every newly created message (pre-registered inbound
\* or sent) gets the ID one above the previously created one, starting one
\* above the base, so no ID is assigned twice, also when the message with
\* the highest ID was deleted before the next creation.
C1_IdsIncreaseByOne ==
    /\ \A i \in 1..Len(hist.created) : hist.created[i] = BaseMessageId + i
    /\ \A i, j \in 1..Len(state.messages) :
          state.messages[i].id = state.messages[j].id => i = j

\* The highest ID was deleted, and a send created the next message after it.
C1_Witness ==
    /\ Len(hist.created) >= 2
    /\ hist.created[Len(hist.created) - 1] \in DeletedIds(state)
    /\ hist.sent # <<>>
    /\ Last(hist.sent).id = Last(hist.created)

\* Every stored upload has its File record and its two log entries.
StoreComplete(st) ==
    \A m \in Range(st.messages) :
        IsSome(m.media) =>
            /\ \E f \in Range(st.files) : f.meta = Unwrap(m.media).file
            /\ \E e \in Range(st.responses.sent_messages) : e.id = m.id
            /\ \E b \in {"sent_messages_animation", "sent_messages_audio",
                         "sent_messages_document"} :
                  \E e \in Range(st.responses[b]) : e.message.id = m.id

\* C2: the whole sequence of one send call is one critical section under
\* the state mutex: at most one thread is inside, every handler between its
\* lock and its return holds the mutex, a handler that has just taken the
\* lock sees only complete uploads, and no two stored messages share an ID.
C2_OneCriticalSection ==
    /\ Cardinality(state_lock) <= 1
    /\ \A c \in Callers : calls[c].pc \in InSection <=> c \in state_lock
    /\ \A c \in Callers : calls[c].pc = "locked" => StoreComplete(state)
    /\ \A i, j \in 1..Len(state.messages) :
          state.messages[i].id = state.messages[j].id => i = j

\* A call waits for the mutex while another has stored its message but not
\* yet its File record.
C2_Witness ==
    \E c, d \in Callers : calls[c].pc = "fields" /\ calls[d].pc = "added"

\* C3: dispatch() starts by resetting the state: right after the reset
\* nothing of an earlier run resolves and ID allocation is back at the base,
\* and after the run the Response Log holds exactly what this run produced.
C3_RunsDoNotLeak ==
    /\ pc = "reset" =>
          /\ state.messages = <<>>
          /\ state.files = <<>>
          /\ max_message_id(state) = BaseMessageId
          /\ \A id \in TargetIds : get_message(state, id) = None
          /\ get_responses(state) = EmptyResponses
    /\ (pc = "idle" /\ nruns > 0) =>
          /\ get_responses(state).sent_messages = hist.sent
          /\ DeletedIds(state) = hist.deleted
          /\ Len(state.messages) = Len(hist.created)

\* The second dispatch has completed and sent one message.
C3_Witness ==
    /\ pc = "idle"
    /\ nruns = 2
    /\ Len(get_responses(state).sent_messages) = 1
    /\ Len(state.messages) = 2

\* C4: within one run the Response Log is append-only: every step other
\* than the reset that starts a dispatch leaves each bucket's earlier
\* content in place as a prefix.
C4_AppendOnly ==
    [][ (pc = "idle" /\ pc' = "reset") \/
        \A b \in Buckets : IsPrefix(state.responses[b], state'.responses[b]) ]_vars

\* Two sends of the run are in sent_messages.
C4_Witness ==
    /\ Len(state.responses.sent_messages) >= 2
    /\ Len(state.responses.sent_messages_document) >= 1

\* The reply target of the send that returned last, as the store held it
\* when the call was served.
LastReplyTarget ==
    get_message(Unwrap(last.pre), Unwrap(Unwrap(last.body).reply_parameters))

\* C5: a send whose reply_parameters names a message that exists in the
\* store succeeds, and the created message carries exactly that stored
\* message, as it was when the call was served, as its reply_to_message.
C5_ReplyResolves ==
    (LastIsSend /\ Unwrap(last.body).reply_parameters # None /\ IsSome(LastReplyTarget)) =>
        /\ Unwrap(last.result).ok
        /\ Unwrap(Unwrap(last.result).message).reply_to_message = LastReplyTarget
        /\ \E m \in Range(state.messages) :
              /\ m.id = Unwrap(Unwrap(last.result).message).id
              /\ m.reply_to_message = LastReplyTarget

\* A send replied to a message that an earlier send of the run created.
C5_Witness ==
    /\ LastIsSend
    /\ Unwrap(last.result).ok
    /\ Unwrap(last.body).reply_parameters = Some(1)
    /\ Unwrap(LastReplyTarget).from = "me"
    /\ Unwrap(LastReplyTarget) \in Range(hist.sent)

\* The step in which the send handler of caller c parses the body, checks
\* the reply target and either returns or goes on to build the message.
SendBuildStep(c) ==
    /\ calls[c].pc = "locked"
    /\ calls[c].method \in SendMethods
    /\ calls'[c].pc # "locked"

\* The body that step parsed.
SendBuildBody(c) ==
    IF calls'[c].pc = "idle" THEN Unwrap(last'.body) ELSE Unwrap(calls'[c].body)

\* C6: a send whose reply_parameters names an ID that does not resolve
\* returns the "Message not found" envelope and leaves the state as it was:
\* no message, no File, no log entry, the same max_message_id.
C6_ReplyNotFound ==
    [][ \A c \in Callers :
          ( /\ SendBuildStep(c)
            /\ SendBuildBody(c).reply_parameters # None
            /\ get_message(state, Unwrap(SendBuildBody(c).reply_parameters)) = None )
          => /\ calls'[c].pc = "idle"
             /\ last'.result = Some(Err(MessageNotFound))
             /\ state' = state
             /\ max_message_id(state') = max_message_id(state) ]_vars

\* A send with an unresolved reply target has returned its error, after an
\* earlier call of the run had already stored a message.
C6_Witness ==
    /\ LastIsSend
    /\ last.result = Some(Err(MessageNotFound))
    /\ Unwrap(last.body).reply_parameters = Some(UnknownMessageId)
    /\ hist.sent # <<>>
    /\ state = Unwrap(last.pre)

\* The step in which caller c serves an edit, delete or pin call.
OtherCallStep(c) ==
    /\ calls[c].pc = "locked"
    /\ calls[c].method \in OtherMethods
    /\ calls'[c].pc = "idle"

\* C7: editing a message's text to its current text yields the
\* MessageNotModified error, leaves the stored message unchanged and
\* appends nothing to edited_messages_text.
C7_EditUnchanged ==
    [][ \A c \in Callers :
          ( /\ OtherCallStep(c)
            /\ calls[c].method = "edit_message_text"
            /\ IsSome(get_message(state, Unwrap(last'.body).message_id))
            /\ Unwrap(get_message(state, Unwrap(last'.body).message_id)).text
                  = Unwrap(last'.body).text )
          => /\ last'.result = Some(Err(MessageNotModified))
             /\ state'.messages = state.messages
             /\ state'.responses.edited_messages_text
                   = state.responses.edited_messages_text ]_vars

\* An edit to the same text was refused.
C7_Witness ==
    /\ last.method = "edit_message_text"
    /\ last.result = Some(Err(MessageNotModified))
    /\ IsSome(get_message(state, Unwrap(last.body).message_id))

\* The message ID the call that returned last was about.
LastTarget ==
    IF LastIsSend THEN Unwrap(last.body).reply_parameters
    ELSE Some(Unwrap(last.body).message_id)

\* C8: once a message has been deleted in a run its ID never resolves again
\* in that run: every later send replying to it and every later edit, pin
\* or delete of it returns "Message not found".
C8_DeletedStaysGone ==
    /\ \A id \in DeletedIds(state) : get_message(state, id) = None
    /\ \A id \in hist.deleted : ~check_if_message_exists(state, id)
    /\ ( /\ last.method \in Methods
         /\ IsSome(LastTarget)
         /\ Unwrap(LastTarget) \in DeletedIds(Unwrap(last.pre)) )
       => last.result = Some(Err(MessageNotFound))

\* A send replied to a message deleted earlier in the run, after another
\* message had been created in between.
C8_Witness ==
    /\ LastIsSend
    /\ IsSome(LastTarget)
    /\ Unwrap(LastTarget) \in DeletedIds(Unwrap(last.pre))
    /\ last.result = Some(Err(MessageNotFound))

\* C9: log entries and embedded reply targets are copies: an edit or a
\* delete of a message changes neither sent_messages, nor a kind bucket,
\* nor any other stored message (whose reply_to_message may be a copy of
\* the edited or deleted one).
C9_LogHoldsCopies ==
    [][ \A c \in Callers :
          ( OtherCallStep(c) /\ calls[c].method \in {"edit_message_text", "delete_message"} )
          => /\ state'.responses.sent_messages = state.responses.sent_messages
             /\ \A b \in {"sent_messages_animation", "sent_messages_audio",
                          "sent_messages_document"} :
                   state'.responses[b] = state.responses[b]
             /\ Len(state'.messages) = Len(state.messages)
             /\ \A i \in 1..Len(state.messages) :
                   state.messages[i].id # Unwrap(last'.body).message_id
                      => state'.messages[i] = state.messages[i] ]_vars

\* A message was sent as a reply, and its target was edited or deleted
\* afterwards: the logged copy still shows the target as it was.
C9_Witness ==
    /\ LastTargetsMessage
    /\ last.method \in {"edit_message_text", "delete_message"}
    /\ Unwrap(last.result).ok
    /\ \E e \in Range(state.responses.sent_messages) :
          /\ IsSome(e.reply_to_message)
          /\ Unwrap(e.reply_to_message).id = Unwrap(last.body).message_id
          /\ get_message(state, Unwrap(last.body).message_id) # e.reply_to_message

KindBuckets ==
    [ animation |-> "sent_messages_animation",
      audio     |-> "sent_messages_audio",
      document  |-> "sent_messages_document" ]

\* C10: every successful send appends exactly one entry to sent_messages
\* and one to its kind bucket, pairing the stored message with the request
\* body of the call; so, whenever no call is inside the critical section,
\* the messages of each kind bucket are the messages of that kind in
\* sent_messages, in the same order.
C10_OneEntryPerSend ==
    state_lock = {} =>
        /\ \A k \in DOMAIN KindBuckets :
              MessagesOf(state.responses[KindBuckets[k]])
                 = SelectSeq(state.responses.sent_messages, LAMBDA m : m.kind = k)
        /\ (LastIsSend /\ Unwrap(last.result).ok) =>
              LET pre    == Unwrap(last.pre)
                  bucket == kind_bucket(last.method)
                  sent   == Unwrap(Unwrap(last.result).message)
              IN  /\ state.responses.sent_messages
                        = Append(pre.responses.sent_messages, sent)
                  /\ state.responses[bucket]
                        = Append(pre.responses[bucket],
                                 [ message |-> sent, bot_request |-> Unwrap(last.body) ])
                  /\ get_message(state, sent.id) = Some(sent)

\* Two sends of different kinds have returned, the audio one last.
C10_Witness ==
    /\ state_lock = {}
    /\ LastIsSend
    /\ last.method = "send_audio"
    /\ Unwrap(last.result).ok
    /\ Len(state.responses.sent_messages) = 2
    /\ state.responses.sent_messages[1].kind = "animation"

\* C11: every successful upload-bearing send pushes exactly one File to the
\* file list: its size is the byte length of the payload, its path the
\* uploaded file's name, its meta the file meta of the stored message.
C11_OneFilePerUpload ==
    state_lock = {} =>
        /\ Len(state.files) = Len(state.responses.sent_messages)
        /\ \A i \in 1..Len(state.files) :
              \E m \in Range(state.messages) :
                 /\ m.id = state.responses.sent_messages[i].id
                 /\ state.files[i].meta = Unwrap(m.media).file
                 /\ Some(state.files[i].path) = Unwrap(m.media).file_name
        /\ (LastIsSend /\ Unwrap(last.result).ok) =>
              LET sent == Unwrap(Unwrap(last.result).message)
                  body == Unwrap(last.body)
              IN  /\ state.files
                        = Append(Unwrap(last.pre).files,
                                 [ meta |-> Unwrap(sent.media).file,
                                   path |-> body.file_name ])
                  /\ Last(state.files).meta.size = Len(body.file_data)
                  /\ Last(state.files).path = body.file_name

\* A second upload, with a payload of two bytes, has been registered.
C11_Witness ==
    /\ state_lock = {}
    /\ LastIsSend
    /\ Unwrap(last.result).ok
    /\ Len(Unwrap(last.body).file_data) = 2
    /\ Len(state.files) = 2
    /\ Last(state.files).meta.size = 2

\* The fixed MIME type each upload-bearing route falls back to.
FallbackMime ==
    [ animation |-> "image/gif", audio |-> "audio/mp3", document |-> "text/plain" ]

\* C12: for animation, audio and document alike the MIME type of the file
\* is guessed from the uploaded file's name, and the route's fixed fallback
\* is used only when the name gives no guess.
C12_MimeGuessedFromName ==
    \A m \in Range(state.messages) :
        IsSome(m.media) =>
            Unwrap(m.media).mime_type
               = Some(UnwrapOr(mime_guess_first(Unwrap(Unwrap(m.media).file_name)),
                               FallbackMime[m.kind]))

\* What the routes do: animation and document guess from the name, audio
\* always reports its fixed type.
C12_MimeAsBuilt ==
    \A m \in Range(state.messages) :
        IsSome(m.media) =>
            Unwrap(m.media).mime_type
               = IF m.kind = "audio" THEN Some(FallbackMime.audio)
                 ELSE Some(UnwrapOr(mime_guess_first(Unwrap(Unwrap(m.media).file_name)),
                                    FallbackMime[m.kind]))

\* An audio upload named "a.gif" is stored with the type "audio/mp3".
C12_Witness ==
    \E m \in Range(state.messages) :
        /\ m.kind = "audio"
        /\ Unwrap(m.media).file_name = Some(GifName)
        /\ Unwrap(m.media).mime_type = Some("audio/mp3")

\* The file-id of the i-th File was drawn for no other upload of the run.
DrawnOnce(st, i) ==
    \A j \in 1..Len(st.files) : j # i => st.files[j].meta.id # st.files[i].meta.id

Holders == { t \in Tests : tests[t].pc \in {"moving", "bot"} }

\* C14: at most one MockBot holds BOT_LOCK at any time; a MockBot::new (or
\* new_with_distribution_function) issued while another bot holds it stays
\* blocked as long as it is held and acquires it after the holder released
\* it; either constructor acquires the lock exactly once.
C14_OneActiveBot ==
    /\ [](/\ Cardinality(Holders) <= 1
          /\ \A t \in Tests : t \in Holders <=> bot_lock.holder = Some(t)
          /\ \A t \in Tests : tests[t].acquired = IF tests[t].pc \in {"idle", "new"} THEN 0 ELSE 1)
    /\ [][ \A t \in Tests :
             (tests[t].pc = "new" /\ bot_lock.holder # None) => tests'[t].pc = "new" ]_vars
    /\ \A t \in Tests : (tests[t].pc = "new") ~> (t \in Holders)

\* A new_with_distribution_function waits in MockBot::new while the bot of
\* another test, made by the same constructor, is in scope.
C14_Witness ==
    \E t, u \in Tests :
        /\ tests[t].pc = "bot"
        /\ tests[u].pc = "new"
        /\ tests[u].ctor = "new_with_distribution_function"
        /\ \E v \in Tests : tests[v].pc = "done"

\* C15: once a test has panicked with its MockBot in scope and poisoned
\* BOT_LOCK, every later MockBot::new still acquires the lock and returns
\* a bot: no bot creation fails because of the poison.
C15_PoisonIsIgnored ==
    /\ [](\A t \in Tests : tests[t].pc = "panicked" => tests[t].acquired = 1)
    /\ [][ \A t \in Tests :
             (tests[t].pc = "new" /\ tests'[t].pc # "new") =>
                /\ tests'[t].pc \in {"moving", "bot"}
                /\ bot_lock'.holder = Some(t) ]_vars
    /\ \A t \in Tests : (tests[t].pc = "new" /\ bot_lock.poisoned) ~> (t \in Holders)

\* A bot is in scope although the test before it panicked and poisoned the
\* lock.
C15_Witness ==
    /\ bot_lock.poisoned
    /\ \E t, u \in Tests :
          /\ tests[t].pc = "panicked"
          /\ tests[u].pc = "bot"
          /\ bot_lock.holder = Some(u)

\* The order of the steps of dispatch().
DispatchOrder ==
    { <<"idle", "reset">>, <<"reset", "started">>, <<"started", "inserted">>,
      <<"inserted", "running">>, <<"running", "idle">> }

\* C16: every dispatch() resets the state, starts a fresh server, registers
\* the inbound updates, points the bot and the environment at the server's
\* port, runs the pipeline and stops the server, in this order. No RPC call
\* is served before the reset or after the stop, the server listens during
\* the whole pipeline run, it is started and stopped once per dispatch, and
\* it is Stopped when dispatch has returned.
C16_DispatchOrder ==
    /\ [](/\ pc = "reset" => (state = DefaultState /\ server # "Listening")
          /\ pc \in {"started", "inserted", "running"} => server = "Listening"
          /\ pc = "started" => (state = DefaultState /\ events = <<>>)
          /\ pc = "inserted" =>
                (Len(events) = Len(updates) /\ api_url.bot # Some(server_port(nruns)))
          /\ pc = "running" =>
                /\ api_url.bot = Some(server_port(nruns))
                /\ api_url.env = Some(server_port(nruns))
          /\ (pc = "idle" /\ nruns > 0) => server = "Stopped"
          /\ pc \in {"reset", "started", "inserted"} => (last = NoLast /\ hist.sent = <<>>))
    /\ [][ /\ pc' # pc => <<pc, pc'>> \in DispatchOrder
           /\ (pc = "idle" /\ pc' = "reset") => nruns' = nruns + 1
           /\ pc # "idle" => nruns' = nruns
           /\ (last' # last /\ last' # NoLast) =>
                 (pc = "running" /\ pc' = "running" /\ server = "Listening")
           /\ (server' # server /\ server' = "Listening") =>
                 (pc = "reset" /\ pc' = "started")
           /\ (server' # server /\ server = "Listening") =>
                 (server' = "Stopped" /\ pc = "running" /\ pc' = "idle") ]_vars

\* A second dispatch has served a call and returned.
C16_Witness ==
    /\ pc = "idle"
    /\ nruns = 2
    /\ server = "Stopped"
    /\ last # NoLast
    /\ Unwrap(last.result).ok
    /\ pipeline.delivered = 2

\* The errors the registered error handler has recorded in the current run.
ErrorsOfRun == SelectSeq(errors, LAMBDA e : e.run = nruns)

\* C17: with an error handler registered by error_handler(), every update
\* whose handler returned an error has that error handed to the handler
\* exactly once; the run goes on with the remaining updates and dispatch()
\* returns normally.
C17_ErrorHandlerInvoked ==
    /\ []((error_handler = MyErrorHandler /\ pc = "running") =>
            /\ Len(ErrorsOfRun) + (IF pipeline.pending # None THEN 1 ELSE 0)
                  = Len(hist.failed)
            /\ \A i \in 1..Len(ErrorsOfRun) :
                  /\ ErrorsOfRun[i].update = hist.failed[i].update
                  /\ ErrorsOfRun[i].error = hist.failed[i].error
            /\ pipeline.pending # None =>
                  Some(Last(hist.failed).error) = pipeline.pending)
    /\ (error_handler = MyErrorHandler /\ pipeline.pending # None)
          ~> (/\ pc = "idle"
              /\ server = "Stopped"
              /\ pipeline.delivered = Len(events)
              /\ Len(ErrorsOfRun) = Len(hist.failed))

\* The first of two updates failed with "Message not found", the error
\* handler recorded it once, the second update was handled and dispatch
\* returned.
C17_Witness ==
    /\ pc = "idle"
    /\ error_handler = MyErrorHandler
    /\ Len(events) = 2
    /\ pipeline.delivered = 2
    /\ Len(hist.failed) = 1
    /\ hist.failed[1].update = 1
    /\ Len(ErrorsOfRun) = 1
    /\ ErrorsOfRun[1].error = MessageNotFound
    /\ last.client = "bot"

\* C18: when a handler returns an error and no error handler was
\* registered on the MockBot, the run fails: dispatch() does not complete
\* normally.
C18_UnhandledErrorFailsRun ==
    ~(/\ pc = "idle"
      /\ nruns > 0
      /\ error_handler = LoggingErrorHandler
      /\ hist.failed # <<>>)

\* What the code does: the default LoggingErrorHandler takes the error and
\* the dispatch completes.
C18_UnhandledErrorIsLogged ==
    (error_handler = LoggingErrorHandler /\ pipeline.pending # None)
       ~> (pc = "idle" /\ server = "Stopped" /\ hist.failed # <<>> /\ ErrorsOfRun = <<>>)

\* A dispatch without a registered error handler has returned normally
\* although the handler of its only update got "Message not found".
C18_Witness ==
    /\ pc = "idle"
    /\ server = "Stopped"
    /\ error_handler = LoggingErrorHandler
    /\ Len(events) = 1
    /\ Len(hist.failed) = 1
    /\ hist.failed[1].error = MessageNotFound

\* C19: during a dispatch a bot built from the environment talks to the
\* server of the current run: its calls are checked against the state the
\* calls of the pipeline's bot have made, and recorded in the same log.
C19_EnvClientSameServer ==
    /\ pc = "running" =>
          /\ api_url.env = api_url.bot
          /\ api_url.env = Some(server_port(nruns))
          /\ server = "Listening"
    /\ last.client = "env" =>
          LET pre    == Unwrap(last.pre)
              body   == Unwrap(last.body)
              result == Unwrap(last.result)
          IN  /\ pre.responses.sent_messages
                    = SubSeq(hist.sent, 1, Len(pre.responses.sent_messages))
              /\ result.ok <=> ~reply_target_missing(pre, body)
              /\ ~result.ok => result.description = MessageNotFound
              /\ result.ok =>
                    /\ Unwrap(result.message).id = max_message_id(pre) + 1
                    /\ Unwrap(result.message).reply_to_message = reply_to_message(pre, body)
                    /\ \E i \in 1..Len(state.responses.sent_messages) :
                          /\ i = Len(pre.responses.sent_messages) + 1
                          /\ state.responses.sent_messages[i] = Unwrap(result.message)
                    /\ [ message |-> Unwrap(result.message), bot_request |-> body ]
                          \in Range(state.responses.sent_messages_document)

\* The error handler answered through the environment's bot after the
\* pipeline's bot had sent a message: both are in the log, in this order.
C19_Witness ==
    /\ last.client = "env"
    /\ Unwrap(last.result).ok
    /\ Len(state.responses.sent_messages) = 2
    /\ Len(Unwrap(last.pre).responses.sent_messages) = 1
    /\ state.responses.sent_messages[2] = Unwrap(Unwrap(last.result).message)
    /\ Len(hist.failed) = 1

\* C20: dispatch() terminates for every finite list of updates, the empty
\* one included, when every handler returns: all updates are handled, the
\* server is stopped and dispatch returns; with no updates the Response Log
\* is empty afterwards.
C20_DispatchTerminates ==
    /\ [](pc = "running" => pipeline.delivered <= Len(events))
    /\ []((pc = "idle" /\ nruns > 0) =>
            /\ pipeline.delivered = Len(events)
            /\ pipeline.pending = None
            /\ events = <<>> => (get_responses(state) = EmptyResponses /\ state.messages = <<>>))
    /\ \A n \in 1..MaxRuns :
          (pc = "reset" /\ nruns = n)
             ~> (pc = "idle" /\ nruns = n /\ server = "Stopped")

\* A dispatch with updates, one of them failing, has returned, and after
\* it a dispatch without updates: its log is empty.
C20_Witness ==
    /\ pc = "idle"
    /\ nruns = 2
    /\ events = <<>>
    /\ server = "Stopped"
    /\ errors # <<>>
    /\ get_responses(state) = EmptyResponses

\* The positions of the Response Log's sent messages that the handler of
\* update i produced: its echoes carry the update's text.
EntriesOf(i) ==
    { n \in 1..Len(state.responses.sent_messages) :
        /\ state.responses.sent_messages[n].caption = Unwrap(events[i].message).text
        /\ state.responses.sent_messages[n].from = "me" }

\* Updates i and j were given the same key by the bot's key function.
SameKey(i, j) ==
    /\ IsSome(distribution_key(distribution_f, events[i]))
    /\ distribution_key(distribution_f, events[i]) = distribution_key(distribution_f, events[j])

\* C21: two inbound updates with the same distribution key are handled in
\* submission order: the handler of the later one makes no call before the
\* handler of the earlier one has returned, and in the sent messages of the
\* Response Log every entry of the earlier update precedes every entry of
\* the later one. (Updates with different keys may interleave: see the
\* witness.)
C21_SameKeyInOrder ==
    pc = "running" /\ workers # <<>> =>
        \A i, j \in DOMAIN workers :
            i < j /\ SameKey(i, j) =>
                /\ workers[j].calls > 0 => workers[i].pc = "done"
                /\ \A n \in EntriesOf(i), m \in EntriesOf(j) : n < m

\* Updates 1 and 3 share a key and both have entries in the log, while an
\* entry of update 2, which has another key, precedes an entry of update 1.
C21_Witness ==
    /\ pc = "running"
    /\ Len(events) = 3
    /\ SameKey(1, 3) /\ ~SameKey(1, 2)
    /\ EntriesOf(1) # {} /\ EntriesOf(3) # {}
    /\ \E n \in EntriesOf(2), m \in EntriesOf(1) : n < m
    /\ \A n \in EntriesOf(1), m \in EntriesOf(3) : n < m

TestCalls == {"set_state", "try_get_state", "get_state"}

\* What a call of the test did with the storage named `used` while the
\* storage named `other` was left alone.
UsedOnly(o, used, other) ==
    LET pre  == Unwrap(o.pre)
        post == Unwrap(o.post)
        chat == Unwrap(o.chat)
        held == get_dialogue(Unwrap(pre[used]), chat)
    IN  /\ post[other] = pre[other]
        /\ o.op = "set_state" =>
              post[used] = Some([Unwrap(pre[used]) EXCEPT ![chat] = o.arg])
        /\ o.op # "set_state" => post = pre
        /\ o.op = "try_get_state" => o.value = held
        /\ o.op = "get_state" =>
              o.value = IF held = None THEN Some(StateDefault) ELSE held

\* C22: set_state, try_get_state and get_state (and assert_state through
\* it) use the InMemStorage when one is registered, whatever else is, and
\* the ErasedStorage only when no InMemStorage is registered; with both
\* registered the ErasedStorage is neither read nor written. With neither
\* registered each of the calls panics.
C22_FirstStorageFound ==
    observed.op \in TestCalls =>
        LET pre == Unwrap(observed.pre)
        IN  /\ (pre.in_mem = None /\ pre.erased = None) =>
                    (observed.panicked /\ pc = "panicked" /\ dependencies = pre)
            /\ (~observed.panicked /\ pre.in_mem # None) =>
                    UsedOnly(observed, "in_mem", "erased")
            /\ (~observed.panicked /\ pre.in_mem = None) =>
                    UsedOnly(observed, "erased", "in_mem")
            /\ (~observed.panicked /\ observed.op = "set_state" /\ pc = "idle") =>
                    dependencies = Unwrap(observed.post)

\* Both storages are registered, the pipeline has left a dialogue in the
\* ErasedStorage, and try_get_state answers from the InMemStorage: none.
C22_Witness ==
    /\ observed.op = "try_get_state"
    /\ ~observed.panicked
    /\ LET pre  == Unwrap(observed.pre)
           chat == Unwrap(observed.chat)
       IN  /\ pre.in_mem # None /\ pre.erased # None
           /\ get_dialogue(Unwrap(pre.erased), chat) # None
           /\ get_dialogue(Unwrap(pre.in_mem), chat) = None
    /\ observed.value = None

\* The step is a call `op` of the test that returned.
TestCallStep(op) ==
    /\ observed' # observed
    /\ observed'.op = op
    /\ ~observed'.panicked

\* The last thing done to a dialogue was done by the pipeline, to the
\* dialogue the calls of the test look at, and the run is over.
RunLeftDialogue ==
    /\ pc = "idle"
    /\ observed.op \in {"update", "exit"}
    /\ observed.chat = first_chat_id(updates)
    /\ observed.storage = first_storage(dependencies)

\* C23: with a storage registered, set_state(s) stores s under the chat of
\* the first update and a try_get_state() that follows it with no dispatch
\* in between returns Some(s). After a run whose pipeline exited the
\* dialogue try_get_state() returns None and get_state() the default state;
\* after a run whose pipeline updated it to s', both return s'.
C23_SetThenGet ==
    [][ /\ TestCallStep("set_state") =>
              /\ updates # <<>>
              /\ IsSome(updates[1].message)
              /\ LET chat    == Unwrap(updates[1].message).chat
                     storage == Unwrap(first_storage(dependencies))
                 IN  get_dialogue(Unwrap(dependencies'[storage]), chat) = observed'.arg
        /\ (TestCallStep("try_get_state") /\ observed.op = "set_state") =>
              observed'.value = observed.arg
        /\ (TestCallStep("try_get_state") /\ RunLeftDialogue) =>
              observed'.value = observed.arg
        /\ (TestCallStep("get_state") /\ RunLeftDialogue) =>
              observed'.value = IF observed.op = "exit" THEN Some(StateDefault)
                                ELSE observed.arg
      ]_vars

\* A state was set, the pipeline of the run exited the dialogue, and
\* try_get_state() has returned None.
C23_Witness ==
    /\ pc = "idle"
    /\ nruns > 0
    /\ observed.op = "try_get_state"
    /\ observed.after = "exit"
    /\ ~observed.panicked
    /\ observed.value = None

\* C24: dispatch() never resets or writes the dialogue storages: the only
\* steps that change them are set_state and the pipeline's handling of an
\* update (and the registration of the storages before the first run). The
\* pipeline is given the dialogue that the bot's storages hold, so it sees
\* the state set before the dispatch and the state the run before left,
\* although the reset of a dispatch has cleared messages, files and log.
C24_DispatchKeepsDialogues ==
    /\ [](observed.op \in {"update", "exit"} =>
            observed.value = get_dialogue(Unwrap(Unwrap(observed.pre)[Unwrap(observed.storage)]),
                                          Unwrap(observed.chat)))
    /\ [][ /\ pc' # pc => dependencies' = dependencies
           /\ (pc = "idle" /\ pc' = "reset") => state' = DefaultState
           /\ dependencies' # dependencies =>
                 \/ pc = "idle" /\ nruns = 0 /\ dependencies = DependencyMapNew
                 \/ pc = "idle" /\ TestCallStep("set_state")
                 \/ /\ pc = "running"
                    /\ pipeline'.delivered = pipeline.delivered + 1
                    /\ observed'.op \in {"update", "exit"}
                    /\ observed'.pre = Some(dependencies)
                    /\ observed'.post = Some(dependencies')
      ]_vars

\* The second run starts from an empty store and log, and its pipeline is
\* given the dialogue that the first run left.
C24_Witness ==
    /\ nruns = 2
    /\ pc = "running"
    /\ pipeline.delivered = 1
    /\ Len(state.responses.sent_messages) = 1
    /\ observed.op = "update"
    /\ observed.after = "update"
    /\ observed.value = Some("NotStart")

\* The last call was one of a client to an upload route.
LastIsRawSend == last.method \in SendMethods /\ last.client = "bot" /\ pc = "running"

\* C25: a request to send_animation, send_audio or send_document with a
\* missing or mistyped required field (chat_id, file name, file data) is
\* answered with a bad-request error envelope and leaves the state as it
\* was, and the server goes on serving: a later well-formed call is
\* answered with the envelope of its route.
C25_MalformedIsBadRequest ==
    LastIsRawSend =>
        LET raw == Unwrap(last.body)
            pre == Unwrap(last.pre)
        IN  IF serialize_raw_fields(raw) = None
            THEN /\ last.result = Some(Err(BadRequest))
                 /\ state = pre
            ELSE last.result # Some(NoResponse)

\* What the handlers do: a malformed request gets no response, leaves the
\* state as it was and poisons its mutex, after which no request gets a
\* response.
C25_MalformedPanics ==
    LastIsRawSend =>
        LET raw == Unwrap(last.body)
            pre == Unwrap(last.pre)
        IN  /\ serialize_raw_fields(raw) = None =>
                (last.result = Some(NoResponse) /\ state = pre /\ poisoned)
            /\ poisoned => last.result = Some(NoResponse)

\* A well-formed request that follows a malformed one gets no response.
C25_Witness ==
    /\ LastIsRawSend
    /\ ncalls = 2
    /\ serialize_raw_fields(Unwrap(last.body)) # None
    /\ last.result = Some(NoResponse)
    /\ poisoned

\* The last call was one of a handler to `method`, and the run goes on.
LastCall(method) == last.method = method /\ last.client = "bot" /\ pc = "running"

\* The IDs of a sequence of log entries.
EntryIds(entries) == [i \in 1..Len(entries) |-> entries[i].message.id]

\* The entries of `after` that follow those of `before`.
Appended(before, after) == SubSeq(after, Len(before) + 1, Len(after))

RevokingBans ==
    { i \in 1..Len(state.responses.banned_chat_members) :
        state.responses.banned_chat_members[i].revoke_messages = Some(TRUE) }

\* Message m is one of a member banned from its chat with revoke_messages.
Revoked(m) ==
    \E i \in RevokingBans :
        /\ state.responses.banned_chat_members[i].chat_id = m.chat
        /\ state.responses.banned_chat_members[i].user_id = m.from

\* C27: once ban_chat_member with revoke_messages = true has been served,
\* no message of that user in that chat resolves any more, whatever is
\* called later (an unban does not bring them back): a later delete of,
\* reply to, reaction to or forward of such a message fails with "message
\* not found". The ban and the unban are each logged once in their bucket
\* with the user's ID, and the messages of the user in other chats stay.
C27_BanRevokesMessages ==
    pc = "running" =>
        /\ \A i \in 1..Len(state.messages) :
              Revoked(state.messages[i]) => get_message(state, state.messages[i].id) = None
        /\ \A i \in 1..Len(state.messages) :
              (state.messages[i].from = "user" /\ state.messages[i].chat # ChatId
               /\ state.messages[i].id \notin DeletedIds(state)) =>
                    get_message(state, state.messages[i].id) # None
        /\ (last.method \in {"delete_message", "set_message_reaction", "forward_message"}
            /\ \E i \in 1..Len(state.messages) :
                  /\ state.messages[i].id = Unwrap(last.body).message_id
                  /\ Revoked(state.messages[i])) =>
                Unwrap(last.result) = Err(MessageNotFound)
        /\ (last.method = "send_message"
            /\ \E i \in 1..Len(state.messages) :
                  /\ Some(state.messages[i].id) = Unwrap(last.body).reply_parameters
                  /\ Revoked(state.messages[i])) =>
                Unwrap(last.result) = Err(MessageNotFound)
        /\ last.method \in {"ban_chat_member", "unban_chat_member"} =>
              LET pre    == Unwrap(last.pre)
                  bucket == IF last.method = "ban_chat_member"
                            THEN "banned_chat_members" ELSE "unbanned_chat_members"
              IN  /\ state.responses[bucket]
                        = Append(pre.responses[bucket], Unwrap(last.body))
                  /\ Last(state.responses[bucket]).user_id = Unwrap(last.body).user_id

\* The user was banned with revoke_messages and unbanned again, and the
\* delete of the user's message, which no delete had removed, has failed.
C27_Witness ==
    /\ LastCall("delete_message")
    /\ Unwrap(last.body).message_id = 1
    /\ Unwrap(last.result) = Err(MessageNotFound)
    /\ RevokingBans # {}
    /\ state.responses.unbanned_chat_members # <<>>
    /\ state.responses.deleted_messages = <<>>
    /\ get_message(state, 2) # None

\* The fields of a message that a forward keeps.
Content(m) ==
    [ kind |-> m.kind, text |-> m.text, caption |-> m.caption,
      caption_entities |-> m.caption_entities, media |-> m.media ]

\* C28: a successful forward_message creates a new message under the next
\* ID with the content of the original, whose forward date is the creation
\* date of the original and whose forward origin names the original's
\* sender; the new message is the last of sent_messages and is appended
\* once, with the request, to forwarded_messages; the original stays as it
\* was. A forward of a message that does not resolve changes nothing.
C28_ForwardCopiesOriginal ==
    LastCall("forward_message") =>
        LET pre    == Unwrap(last.pre)
            body   == Unwrap(last.body)
            result == Unwrap(last.result)
        IN  IF ~check_if_message_exists(pre, body.message_id)
            THEN result = Err(MessageNotFound) /\ state = pre
            ELSE LET original == Unwrap(get_message(pre, body.message_id))
                     new      == Unwrap(result.message)
                 IN  /\ result.ok
                     /\ new.id = max_message_id(pre) + 1
                     /\ new.id # original.id
                     /\ Content(new) = Content(original)
                     /\ IsSome(new.forward_origin)
                     /\ Unwrap(new.forward_origin).date = original.date
                     /\ Unwrap(new.forward_origin).sender = original.from
                     /\ get_message(state, new.id) = Some(new)
                     /\ get_message(state, original.id) = Some(original)
                     /\ state.responses.sent_messages
                            = Append(pre.responses.sent_messages, new)
                     /\ state.responses.forwarded_messages
                            = Append(pre.responses.forwarded_messages,
                                     [ message |-> new, bot_request |-> body ])

\* The user's message, created at date 1, has been forwarded: the copy is
\* message 3 with forward date 1.
C28_Witness ==
    /\ LastCall("forward_message")
    /\ Unwrap(last.result).ok
    /\ Unwrap(last.body).message_id = 1
    /\ Unwrap(Unwrap(last.result).message).id = 3
    /\ Unwrap(Unwrap(Unwrap(last.result).message).forward_origin)
            = [ sender |-> "user", date |-> 1 ]
    /\ Len(state.responses.forwarded_messages) = 1

\* C29: a successful send_media_group with N items stores N new messages
\* under the N next IDs in the order of the items and appends one entry to
\* sent_media_group that holds those N messages and the request; each
\* message carries the caption and the file of its own item and the
\* resolved reply target. A group that replies to a message that does not
\* resolve creates nothing.
C29_GroupFansOut ==
    LastCall("send_media_group") =>
        LET pre  == Unwrap(last.pre)
            body == Unwrap(last.body)
            n    == Len(body.media)
        IN  IF body.reply_parameters # None
               /\ get_message(pre, Unwrap(body.reply_parameters)) = None
            THEN Unwrap(last.result) = Err(MessageNotFound) /\ state = pre
            ELSE LET new == Appended(pre.messages, state.messages)
                 IN  /\ Unwrap(last.result).ok
                     /\ IsPrefix(pre.messages, state.messages)
                     /\ Len(new) = n
                     /\ \A i \in 1..n :
                           /\ new[i].id = max_message_id(pre) + i
                           /\ new[i].caption = body.media[i].caption
                           /\ Unwrap(new[i].media).file_name = Some(body.media[i].file_name)
                           /\ Unwrap(new[i].media).file.size = Len(body.media[i].file_data)
                           /\ new[i].reply_to_message =
                                 IF body.reply_parameters = None THEN None
                                 ELSE get_message(pre, Unwrap(body.reply_parameters))
                     /\ state.responses.sent_media_group
                            = Append(pre.responses.sent_media_group,
                                     [ messages |-> new, bot_request |-> body ])

\* A group of three items that replies to the user's message has created
\* the messages 3, 4 and 5 with the captions of their items.
C29_Witness ==
    /\ LastCall("send_media_group")
    /\ Unwrap(last.result).ok
    /\ Len(state.responses.sent_media_group) = 1
    /\ LET group == state.responses.sent_media_group[1].messages
       IN  /\ [i \in 1..Len(group) |-> group[i].id] = <<3, 4, 5>>
           /\ [i \in 1..Len(group) |-> group[i].caption] = <<None, Some("test"), Some("c")>>
           /\ \A i \in 1..Len(group) :
                 /\ IsSome(group[i].reply_to_message)
                 /\ Unwrap(group[i].reply_to_message).id = 1

\* The bucket of the Response Log of each route that creates no message.
CallBucket ==
    [ ban_chat_member       |-> "banned_chat_members",
      unban_chat_member     |-> "unbanned_chat_members",
      restrict_chat_member  |-> "restricted_chat_members",
      send_chat_action      |-> "sent_chat_actions",
      set_message_reaction  |-> "set_message_reaction",
      set_my_commands       |-> "set_my_commands",
      answer_callback_query |-> "answered_callback_queries" ]

RegistersMessage(u) ==
    \/ u.kind = "Message"
    \/ u.kind = "CallbackQuery" /\ IsSome(u.message) /\ u.accessible

\* How many of the first i updates add a message.
Rank(ups, i) == Cardinality({ j \in 1..i : RegistersMessage(ups[j]) })

\* The edited-message updates after the i-th that name the message id.
LaterEdits(ups, i, id) ==
    { j \in (i + 1)..Len(ups) :
        ups[j].kind = "EditedMessage" /\ Unwrap(ups[j].message).id = id }

\* C31: when dispatch has registered the inbound updates (lines 300-301),
\* the store holds one message per new-message update and per callback
\* query with a regular message, in submission order with the IDs after the
\* base; a stored message named by a later edited-message update is that
\* update's message, in place; every other update has added nothing; and
\* each event handed to the pipeline carries its message as it was stored,
\* every other event being the update as submitted.
C31_PreRegistration ==
    pc = "inserted" =>
        /\ Len(events) = Len(updates)
        /\ Len(state.messages) = Rank(updates, Len(updates))
        /\ state.tombstones = {} /\ state.files = <<>> /\ state.responses = EmptyResponses
        /\ \A i \in 1..Len(updates) :
              IF RegistersMessage(updates[i])
              THEN LET k == Rank(updates, i)
                       stored == [Unwrap(updates[i].message) EXCEPT !.id = BaseMessageId + k]
                       later == LaterEdits(updates, i, stored.id)
                   IN  /\ events[i] = [updates[i] EXCEPT !.message = Some(stored)]
                       /\ state.messages[k] =
                             IF later = {} THEN stored
                             ELSE Unwrap(updates[CHOOSE j \in later : \A l \in later : l <= j].message)
              ELSE events[i] = updates[i]

\* A message update followed by an edit of the message it stored.
C31_Witness ==
    /\ pc = "inserted"
    /\ updates = <<MessageUpdate("a"), EditedMessageUpdate(1, "b")>>
    /\ Len(state.messages) = 1
    /\ state.messages[1].text = Some("b")
    /\ Unwrap(events[1].message).id = 1

\* C32: BOT_LOCK is held by the bot of thread 1 exactly while that bot is
\* inside dispatch(); before its first run and between two runs the lock is
\* not held by it.
C32_LockFollowsRun ==
    /\ pc # "idle" => bot_lock.holder = Some(1)
    /\ (tests[1].pc = "bot" /\ pc = "idle") => bot_lock.holder # Some(1)

\* Between its first and its second run the bot of thread 1 holds BOT_LOCK
\* and the MockBot::new of another test waits at line 137.
C32_Witness ==
    /\ tests[1].pc = "bot"
    /\ pc = "idle"
    /\ nruns = 1
    /\ bot_lock.holder = Some(1)
    /\ tests[2].pc = "new"

\* C33: a MockBot::new called in a thread that has a MockBot in scope
\* returns, and the thread then has two bots.
C33_SecondNewReturns ==
    \A t \in Tests : (tests[t].pc = "renew") ~> (tests[t].pc = "bots")

\* The second MockBot::new of a thread has blocked for ever on the lock its
\* first bot holds, with another test waiting behind it.
C33_Witness ==
    \E t, u \in Tests :
        /\ tests[t].pc = "deadlocked"
        /\ bot_lock.holder = Some(t)
        /\ tests[u].pc = "new"

\* C34: a send handler reads the multipart fields, parses them into the
\* typed body and guesses the MIME type while it does not hold the state's
\* mutex: neither the step that reads the fields nor the step that parses
\* the body and builds the message is taken by a holder of the lock.
C34_ParsedUnlocked ==
    [][ \A c \in Callers :
          /\ (calls[c].pc = "idle" /\ calls'[c].pc = "fields") => c \notin state_lock'
          /\ SendBuildStep(c) => c \notin state_lock ]_vars

\* A send handler has parsed its body and built its message, MIME type
\* included, under the lock, while the handler of another call has read
\* its fields and waits for the lock.
C34_Witness ==
    \E c, d \in Callers :
        /\ calls[c].pc = "built"
        /\ calls[c].method \in SendMethods
        /\ Unwrap(calls[c].message).media # None
        /\ state_lock = {c}
        /\ calls[d].pc = "fields"

\* C35: after a route handler has panicked while serving a call, the
\* harness goes on: a later well-formed call of the run is answered,
\* get_responses() returns the log, and the next dispatch() resets the state
\* and runs; none of them fails on the state's mutex.
C35_PanicDoesNotBlock ==
    /\ pc # "panicked"
    /\ (LastIsRawSend /\ serialize_raw_fields(Unwrap(last.body)) # None) =>
           last.result # Some(NoResponse)
    /\ (last.method = "get_responses") =>
           /\ IsSome(last.result)
           /\ Unwrap(last.result).value = get_responses(Unwrap(last.pre))

\* The run in which a handler panicked has ended and the test's
\* get_responses() has panicked on the poisoned mutex.
C35_Witness ==
    /\ poisoned
    /\ nruns = 1
    /\ server = "Stopped"
    /\ pc = "panicked"
    /\ last.method = "get_responses"
    /\ last.result = None

\* C36: when the pipeline has panicked during a run, dispatch() does not
\* return: its next step is the panic of the expect, which leaves the state
\* and the server as they were, and after that panic the MockBot takes no
\* further step, so the run is never seen as completed.
C36_PanicPropagates ==
    /\ [][ pc = "joined_err" => (pc' = "panicked" /\ state' = state /\ server' = server) ]_vars
    /\ [][ pc = "panicked" => pc' = "panicked" ]_vars
    /\ [](pc = "panicked" => server = "Listening")

\* The handler of the second update of a run has panicked and dispatch()
\* has panicked with it, a call of the first update's handler on record.
C36_Witness ==
    /\ pc = "panicked"
    /\ Len(events) = 2
    /\ pipeline.delivered = 1
    /\ last.client = "bot"
    /\ server = "Listening"

\* What a message carries for an optional field of the request.
Carried(field, default) == IF field = None THEN default ELSE Unwrap(field)

\* C37: the message a successful send_animation, send_audio or
\* send_document has stored carries, for each optional field of the request,
\* the supplied value, and for an omitted field its default: no caption
\* entities, has_protected_content false, duration 0 (animation, audio),
\* width and height 100, no spoiler and the caption below the media
\* (animation).
C37_FieldDefaults ==
    (LastIsSend /\ last.client = "bot" /\ Unwrap(last.result).ok) =>
        LET body == Unwrap(last.body)
            sent == Unwrap(Unwrap(last.result).message)
            media == Unwrap(sent.media)
        IN  /\ \E i \in 1..Len(state.messages) : state.messages[i] = sent
            /\ Last(state.responses[kind_bucket(last.method)]).message = sent
            /\ sent.caption = body.caption
            /\ sent.caption_entities = Carried(body.caption_entities, <<>>)
            /\ sent.has_protected_content = Carried(body.protect_content, FALSE)
            /\ last.method \in {"send_animation", "send_audio"} =>
                   media.duration = Carried(body.duration, 0)
            /\ last.method = "send_animation" =>
                   /\ media.width = Carried(body.width, 100)
                   /\ media.height = Carried(body.height, 100)
                   /\ media.has_media_spoiler = Carried(body.has_spoiler, FALSE)
                   /\ media.show_caption_above_media
                         = Carried(body.show_caption_above_media, FALSE)

\* Two animations have been sent in one run, the first with every optional
\* field omitted, the second with every one supplied.
C37_Witness ==
    /\ LastIsSend /\ last.client = "bot" /\ Unwrap(last.result).ok
    /\ Len(state.responses.sent_messages_animation) = 2
    /\ LET first == state.responses.sent_messages_animation[1]
           second == state.responses.sent_messages_animation[2]
       IN  /\ first.bot_request.width = None
           /\ Unwrap(first.message.media).width = 100
           /\ Unwrap(first.message.media).duration = 0
           /\ second.bot_request.width = Some(320)
           /\ Unwrap(second.message.media).width = 320
           /\ second.message.has_protected_content

\* The i-th run has returned and is on record.
RunDone(i) == IsSome(runs[i].responses)

\* C38: no step of dispatch() changes the stored updates, and any two
\* dispatches of the bot that started from equal updates and equal
\* dialogues have delivered the same events and left the same Response
\* Log: the same requests in the same order with the same message IDs.
C38_RunsRepeat ==
    /\ [][ (pc # "idle" \/ pc' # "idle") => updates' = updates ]_vars
    /\ [](\A i, j \in 1..Len(runs) :
            ( /\ RunDone(i) /\ RunDone(j)
              /\ runs[i].updates = runs[j].updates
              /\ runs[i].dialogues = runs[j].dialogues )
            => /\ runs[i].events = runs[j].events
               /\ runs[i].responses = runs[j].responses)

\* The bot has been dispatched twice on the same update and from the same
\* dialogues, and both runs have sent the same message with the ID 2.
C38_Witness ==
    /\ Len(runs) = 2
    /\ RunDone(1) /\ RunDone(2)
    /\ runs[1].updates = runs[2].updates
    /\ runs[1].dialogues = runs[2].dialogues
    /\ updates = runs[2].updates
    /\ Len(Unwrap(runs[1].responses).sent_messages) = 1
    /\ Unwrap(runs[2].responses).sent_messages[1].id = 2
    /\ Unwrap(runs[2].events)[1] # updates[1]

\* The test holds a value get_responses() returned since the last run.
HoldsSnapshot == pc = "idle" /\ last.method = "get_responses" /\ IsSome(last.result)

\* C39: between two dispatches no step changes the State: not
\* get_responses(), not a pop on a value it returned, not update(),
\* dependencies(), me() or error_handler(); and the value the test holds is
\* the Response Log of the last run less the entries the test itself has
\* popped, so a later get_responses() returns the full log again.
C39_ReadOnlySnapshot ==
    /\ [][ (pc = "idle" /\ pc' = "idle") => state' = state ]_vars
    /\ [](HoldsSnapshot =>
            LET r == Unwrap(last.result)
            IN  [r.value EXCEPT !.sent_messages = @ \o r.popped] = get_responses(state))
    /\ [][ (HoldsSnapshot /\ last'.method = "get_responses" /\ IsSome(last'.result)
            /\ Unwrap(last'.result).popped = <<>>)
           => Unwrap(last'.result).value = get_responses(state') ]_vars

\* After a run that sent a message the test has popped the entry off the
\* value it was given and has then set me, the dependencies and the error
\* handler; the Response Log still holds the entry.
C39_Witness ==
    /\ HoldsSnapshot
    /\ nruns = 1
    /\ Unwrap(last.result).popped # <<>>
    /\ Unwrap(last.result).value.sent_messages = <<>>
    /\ Len(get_responses(state).sent_messages) = 1
    /\ me # MockMe
    /\ dependencies # DependencyMapNew
    /\ error_handler = MyErrorHandler

\* Every call of get_potential_storages has returned at least once per thread.
AllProbesReturned ==
    \A p \in Probers : probes[p].pc = "idle" /\ probes[p].returned > 0

\* C40: once every call of get_potential_storages has returned, whatever
\* the number of calls and however the calls of the threads interleaved,
\* the installed panic hook is the one installed before the first call,
\* whether or not a storage was found.
C40_HookRestored ==
    (\A p \in Probers : probes[p].pc = "idle") => panic_hook.installed = panic_hook.first

\* Both threads have returned from their calls, and the silent hook is the
\* one that stays installed.
C40_Witness ==
    /\ AllProbesReturned
    /\ panic_hook.installed = SilentHook
    /\ ~panic_hook.gagged

====
